---- MODULE Spec2Model ----
(***************************************************************************)
(* datelib: business-day predicate, roll conventions and period advance    *)
(* over a holiday calendar.  Dates are (year, month, day) records as in    *)
(* std::chrono::year_month_day; sys_days are day counts since 1970-01-01.  *)
(***************************************************************************)
EXTENDS Integers, Sequences, FiniteSets, TLC

VARIABLES explicitHolidays_, rules_, call, calendar2

vars == <<explicitHolidays_, rules_, call, calendar2>>

-----------------------------------------------------------------------------
(* Bounds of the exploration *)

\* number of consecutive calendar days in each window of input dates
WindowLen == 6
\* largest number of holidays and rules added to a calendar one at a time
MaxEntries == 2
\* largest number of business days advanced, in either direction
MaxDays == 3
\* largest number of months and of years advanced, in either direction
MaxMonths == 14
MaxYears == 4
\* passes of a loop that are explored; a loop that needs more is left "running"
LoopFuel == 400

-----------------------------------------------------------------------------
(* Program constants *)

MAX_DAYS_TO_SEARCH == 366
DAYS_PER_WEEK == 7

\* std::chrono::weekday::c_encoding()
Sunday == 0
Friday == 5
Saturday == 6

-----------------------------------------------------------------------------
(* std::chrono calendar arithmetic *)

Date(y, m, d) == [year |-> y, month |-> m, day |-> d]

NoDate == Date(0, 0, 0)

is_leap(y) == (y % 4 = 0) /\ ((y % 100 # 0) \/ (y % 400 = 0))

\* year_month_day_last: the last day of month m of year y
last_day(y, m) ==
    IF m = 2 THEN (IF is_leap(y) THEN 29 ELSE 28)
    ELSE IF m \in {4, 6, 9, 11} THEN 30 ELSE 31

\* std::chrono::year{int}: the year is held in 16 bits
chrono_year(y) == ((y + 32768) % 65536) - 32768

\* year_month_day::ok()
ok(ymd) ==
    /\ ymd.year >= -32767 /\ ymd.year <= 32767
    /\ ymd.month >= 1 /\ ymd.month <= 12
    /\ ymd.day >= 1 /\ ymd.day <= last_day(ymd.year, ymd.month)

\* sys_days{year_month_day}: days since 1970-01-01 (days_from_civil)
sys_days(ymd) ==
    LET y   == IF ymd.month <= 2 THEN ymd.year - 1 ELSE ymd.year
        era == y \div 400
        yoe == y - era * 400
        mp  == IF ymd.month > 2 THEN ymd.month - 3 ELSE ymd.month + 9
        doy == (153 * mp + 2) \div 5 + ymd.day - 1
        doe == yoe * 365 + yoe \div 4 - yoe \div 100 + doy
    IN  era * 146097 + doe - 719468

\* year_month_day{sys_days}: the civil date of a day count (civil_from_days)
year_month_day(days) ==
    LET z   == days + 719468
        era == z \div 146097
        doe == z - era * 146097
        yoe == (doe - doe \div 1460 + doe \div 36524 - doe \div 146096) \div 365
        y   == yoe + era * 400
        doy == doe - (365 * yoe + yoe \div 4 - yoe \div 100)
        mp  == (5 * doy + 2) \div 153
        d   == doy - (153 * mp + 2) \div 5 + 1
        m   == IF mp < 10 THEN mp + 3 ELSE mp - 9
    IN  Date(IF m <= 2 THEN y + 1 ELSE y, m, d)

\* weekday{sys_days}: 0 = Sunday .. 6 = Saturday (1970-01-01 was a Thursday)
weekday(days) == (days + 4) % 7

Abs(n) == IF n < 0 THEN -n ELSE n

\* operator< of year_month_day: lexicographic on (year, month, day)
DateLess(a, b) ==
    \/ a.year < b.year
    \/ a.year = b.year /\ a.month < b.month
    \/ a.year = b.year /\ a.month = b.month /\ a.day < b.day

\* the % of C++ on int: the quotient truncates toward zero
Rem(a, b) == IF a >= 0 THEN a % b ELSE -((-a) % b)

\* the / of C++ on int, for a positive divisor: truncates toward zero
Quot(a, b) == IF a >= 0 THEN a \div b ELSE -((-a) \div b)

\* Date::isLeapYear
isLeapYear(year) ==
    (Rem(year, 4) = 0) /\ ((Rem(year, 100) # 0) \/ (Rem(year, 400) = 0))

\* mutant: February has 28 days in every year
daysInMonth_NoLeapDay(year, month) ==
    LET days == <<31, 28, 31, 30, 31, 30, 31, 31, 30, 31, 30, 31>>
    IN  IF month < 1 \/ month > 12 THEN 0 ELSE days[month]

\* Date::daysInMonth: the table of month lengths, 29 for a leap February
daysInMonth(year, month) ==
    LET days == <<31, 28, 31, 30, 31, 30, 31, 31, 30, 31, 30, 31>>
    IN  IF month < 1 \/ month > 12 THEN 0
        ELSE IF month = 2 /\ isLeapYear(year) THEN 29
        ELSE days[month]

\* Date::dayOfWeek: Zeller's congruence, 0 = Sunday .. 6 = Saturday; / and %
\* are those of int
dayOfWeek(date) ==
    LET m == IF date.month < 3 THEN date.month + 12 ELSE date.month
        y == IF date.month < 3 THEN date.year - 1 ELSE date.year
        d == date.day
        c == Quot(y, 100)
        k == Rem(y, 100)
        h == Rem(d + Quot(13 * (m + 1), 5) + k + Quot(k, 4) + Quot(c, 4) - 2 * c, 7)
    IN  Rem(h + 6, 7)

\* Date::validate, called by the constructor
validate(year_, month_, day_) ==
    IF month_ < 1 \/ month_ > 12 THEN "invalid_argument"
    ELSE LET maxDays == daysInMonth(year_, month_)
         IN  IF day_ < 1 \/ day_ > maxDays THEN "invalid_argument" ELSE "ok"

\* Date::Date(year, month, day): the object with the three members, or the
\* exception of validate
Date_Date(year, month, day) ==
    IF validate(year, month, day) = "ok"
    THEN [status |-> "ok", date |-> Date(year, month, day)]
    ELSE [status |-> validate(year, month, day), date |-> NoDate]

-----------------------------------------------------------------------------
(* Results of calls: a status ("ok" or the exception thrown) and a date *)

Returned(ymd) == [status |-> "ok", date |-> ymd]

Thrown(exception) == [status |-> exception, date |-> NoDate]

-----------------------------------------------------------------------------
(* HolidayRule: Explicit, Fixed and NthWeekday variants *)

Rule(kind, name, date, month, day, wd, occurrence) ==
    [kind |-> kind, name |-> name, date |-> date, month |-> month, day |-> day,
     weekday |-> wd, occurrence |-> occurrence]

ExplicitDateRule(name, date) == Rule("Explicit", name, date, 0, 0, 0, 0)

FixedDateRule(name, month, day) == Rule("Fixed", name, NoDate, month, day, 0, 0)

NthWeekdayRule(name, month, wd, occurrence) ==
    Rule("NthWeekday", name, NoDate, month, 0, wd, occurrence)

ExplicitDateRule_calculateDate(rule, year) ==
    IF rule.date.year = year
    THEN Returned(rule.date)
    ELSE Thrown("DateNotInYearException")

FixedDateRule_calculateDate(rule, year) ==
    LET ymd == Date(chrono_year(year), rule.month, rule.day)
    IN  IF ~ok(ymd) THEN Thrown("InvalidDateException") ELSE Returned(ymd)

\* mutant: the month of the result is not compared with the month of the rule
NthWeekdayRule_calculateDate_NoMonthTest(rule, year) ==
    LET first_sd      == sys_days(Date(chrono_year(year), rule.month, 1))
        first_weekday == weekday(first_sd)
        days_until_target ==
            (rule.weekday + DAYS_PER_WEEK - first_weekday) % DAYS_PER_WEEK
        occ == IF rule.occurrence > 0 THEN rule.occurrence ELSE 5
    IN  Returned(year_month_day(
            first_sd + days_until_target + (occ - 1) * DAYS_PER_WEEK))

\* mutant: the last occurrence is sought from the first day of the month
NthWeekdayRule_calculateDate_LastIsFourth(rule, year) ==
    LET first_sd      == sys_days(Date(chrono_year(year), rule.month, 1))
        first_weekday == weekday(first_sd)
        days_until_target ==
            (rule.weekday + DAYS_PER_WEEK - first_weekday) % DAYS_PER_WEEK
        occ    == IF rule.occurrence > 0 THEN rule.occurrence ELSE 4
        result == year_month_day(
                      first_sd + days_until_target + (occ - 1) * DAYS_PER_WEEK)
    IN  IF result.month # rule.month
        THEN Thrown("OccurrenceNotFoundException")
        ELSE Returned(result)

NthWeekdayRule_calculateDate(rule, year) ==
    LET first_sd      == sys_days(Date(chrono_year(year), rule.month, 1))
        first_weekday == weekday(first_sd)
    IN  IF rule.occurrence > 0
        THEN LET days_until_target ==
                     (rule.weekday + DAYS_PER_WEEK - first_weekday) % DAYS_PER_WEEK
                 offset_days ==
                     days_until_target + (rule.occurrence - 1) * DAYS_PER_WEEK
                 result == year_month_day(first_sd + offset_days)
             IN  IF result.month # rule.month
                 THEN Thrown("OccurrenceNotFoundException")
                 ELSE Returned(result)
        ELSE LET last_sd ==
                     sys_days(Date(chrono_year(year), rule.month, last_day(chrono_year(year), rule.month)))
                 last_weekday == weekday(last_sd)
                 days_to_subtract ==
                     (last_weekday + DAYS_PER_WEEK - rule.weekday) % DAYS_PER_WEEK
             IN  Returned(year_month_day(last_sd - days_to_subtract))

\* virtual HolidayRule::calculateDate
calculateDate(rule, year) ==
    CASE rule.kind = "Explicit"   -> ExplicitDateRule_calculateDate(rule, year)
      [] rule.kind = "Fixed"      -> FixedDateRule_calculateDate(rule, year)
      [] rule.kind = "NthWeekday" -> NthWeekdayRule_calculateDate(rule, year)

\* ExplicitDateRule::appliesTo
ExplicitDateRule_appliesTo(rule, year) == rule.date.year = year

\* FixedDateRule::appliesTo
FixedDateRule_appliesTo(rule, year) ==
    ok(Date(chrono_year(year), rule.month, rule.day))

\* NthWeekdayRule::appliesTo
NthWeekdayRule_appliesTo(rule, year) ==
    IF rule.occurrence < 0 THEN TRUE
    ELSE LET first_sd      == sys_days(Date(chrono_year(year), rule.month, 1))
             first_weekday == weekday(first_sd)
             days_until_target ==
                 (rule.weekday + DAYS_PER_WEEK - first_weekday) % DAYS_PER_WEEK
             offset_days ==
                 days_until_target + (rule.occurrence - 1) * DAYS_PER_WEEK
             result == year_month_day(first_sd + offset_days)
         IN  result.month = rule.month

\* virtual HolidayRule::appliesTo
appliesTo(rule, year) ==
    CASE rule.kind = "Explicit"   -> ExplicitDateRule_appliesTo(rule, year)
      [] rule.kind = "Fixed"      -> FixedDateRule_appliesTo(rule, year)
      [] rule.kind = "NthWeekday" -> NthWeekdayRule_appliesTo(rule, year)

-----------------------------------------------------------------------------
(* HolidayCalendar: a set of explicit dates and an ordered list of rules *)

Calendar(explicit, rules) == [explicitHolidays |-> explicit, rules |-> rules]

\* the calendar object of the current state
calendar == Calendar(explicitHolidays_, rules_)

\* HolidayCalendar::isHoliday: a rule that throws is skipped
isHoliday(cal, date) ==
    \/ date \in cal.explicitHolidays
    \/ \E i \in 1..Len(cal.rules) :
          LET ruleDate == calculateDate(cal.rules[i], date.year)
          IN  ruleDate.status = "ok" /\ ruleDate.date = date

\* what a query of the calendar returns or throws: a truth value, a list of
\* dates or a list of names
Answer(status, flag, list, names) ==
    [status |-> status, flag |-> flag, list |-> list, names |-> names]

\* mutant: explicit dates only
HolidayCalendar_isHoliday_ExplicitOnly(cal, date) ==
    Answer("ok", date \in cal.explicitHolidays, <<>>, <<>>)

RECURSIVE isHolidayRules_Throws(_, _, _)
\* mutant: the exception of a rule leaves the loop
isHolidayRules_Throws(rules, date, i) ==
    IF i > Len(rules) THEN Answer("ok", FALSE, <<>>, <<>>)
    ELSE LET ruleDate == calculateDate(rules[i], date.year)
         IN  IF ruleDate.status # "ok"
             THEN Answer(ruleDate.status, FALSE, <<>>, <<>>)
             ELSE IF ruleDate.date = date
             THEN Answer("ok", TRUE, <<>>, <<>>)
             ELSE isHolidayRules_Throws(rules, date, i + 1)

RECURSIVE isHolidayRules(_, _, _)
\* the loop of isHoliday over the rules from index i on: the first rule that
\* yields the date returns true, a rule that throws is skipped
isHolidayRules(rules, date, i) ==
    IF i > Len(rules) THEN Answer("ok", FALSE, <<>>, <<>>)
    ELSE LET ruleDate == calculateDate(rules[i], date.year)
         IN  IF ruleDate.status = "ok" /\ ruleDate.date = date
             THEN Answer("ok", TRUE, <<>>, <<>>)
             ELSE isHolidayRules(rules, date, i + 1)

\* HolidayCalendar::isHoliday as a call that returns or throws
HolidayCalendar_isHoliday(cal, date) ==
    IF date \in cal.explicitHolidays THEN Answer("ok", TRUE, <<>>, <<>>)
    ELSE isHolidayRules(cal.rules, date, 1)

RECURSIVE ascending(_)
\* the elements of a std::set<Date> in iteration order
ascending(dates) ==
    IF dates = {} THEN <<>>
    ELSE LET least == CHOOSE d \in dates : \A e \in dates : ~DateLess(e, d)
         IN  <<least>> \o ascending(dates \ {least})

RECURSIVE ruleDates(_, _, _)
\* the loop of getHolidays over the rules from index i on: the dates inserted
ruleDates(rules, year, i) ==
    IF i > Len(rules) THEN {}
    ELSE LET ruleDate == calculateDate(rules[i], year)
         IN  (IF ruleDate.status = "ok" THEN {ruleDate.date} ELSE {})
                 \cup ruleDates(rules, year, i + 1)

\* mutant: the dates are appended to a vector as they are met
getHolidays_Appended(cal, year) ==
    LET explicit == ascending({d \in cal.explicitHolidays : d.year = year})
        yields(i) == calculateDate(cal.rules[i], year)
        kept == SelectSeq([i \in 1..Len(cal.rules) |-> yields(i)],
                          LAMBDA r : r.status = "ok")
    IN  Answer("ok", FALSE,
               explicit \o [i \in 1..Len(kept) |-> kept[i].date], <<>>)

\* HolidayCalendar::getHolidays
getHolidays(cal, year) ==
    LET holidays == {d \in cal.explicitHolidays : d.year = year}
                        \cup ruleDates(cal.rules, year, 1)
    IN  Answer("ok", FALSE, ascending(holidays), <<>>)

RECURSIVE ruleNames(_, _, _)
\* the loop of getHolidayNames over the rules from index i on
ruleNames(rules, date, i) ==
    IF i > Len(rules) THEN <<>>
    ELSE LET ruleDate == calculateDate(rules[i], date.year)
         IN  (IF ruleDate.status = "ok" /\ ruleDate.date = date
              THEN <<rules[i].name>> ELSE <<>>)
                 \o ruleNames(rules, date, i + 1)

\* HolidayCalendar::getHolidayNames
getHolidayNames(cal, date) ==
    Answer("ok", FALSE, <<>>,
           (IF date \in cal.explicitHolidays THEN <<"Holiday">> ELSE <<>>)
               \o ruleNames(cal.rules, date, 1))

\* HolidayRule::clone: a new rule constructed from the members of the rule
clone(rule) ==
    CASE rule.kind = "Explicit"   -> ExplicitDateRule(rule.name, rule.date)
      [] rule.kind = "Fixed"      -> FixedDateRule(rule.name, rule.month, rule.day)
      [] rule.kind = "NthWeekday" ->
            NthWeekdayRule(rule.name, rule.month, rule.weekday, rule.occurrence)

\* mutant: the explicit dates are copied, the rules are not
HolidayCalendar_copy_NoRules(other) == Calendar(other.explicitHolidays, <<>>)

\* HolidayCalendar(const HolidayCalendar& other), and operator= on another
\* object: the set of dates copied, each rule cloned in order
HolidayCalendar_copy(other) ==
    Calendar(other.explicitHolidays,
             [i \in 1..Len(other.rules) |-> clone(other.rules[i])])

-----------------------------------------------------------------------------
(* Business-day predicate and the two directional scans *)

\* mutant: the weekend set passed by the caller is ignored
isBusinessDay_DefaultWeekend(date, cal, weekend_days) ==
    weekday(sys_days(date)) \notin {Saturday, Sunday} /\ ~isHoliday(cal, date)

isBusinessDay(date, cal, weekend_days) ==
    LET wd == weekday(sys_days(date))
        is_not_weekend == wd \notin weekend_days
    IN  is_not_weekend /\ ~isHoliday(cal, date)

\* a scan result also carries the number of single-day steps it took
Scanned(status, ymd, steps) == [status |-> status, date |-> ymd, steps |-> steps]

\* the local variables of a scan, and whether its loop is still running
ScanState(adjusted, iterations, status) ==
    [adjusted |-> adjusted, iterations |-> iterations, status |-> status]

\* mutant: the iteration limit is tested with >= instead of >
scanStep_LimitOffByOne(s, direction, cal, weekend_days) ==
    IF s.status # "running" THEN s
    ELSE IF isBusinessDay(year_month_day(s.adjusted), cal, weekend_days)
         THEN [s EXCEPT !.status = "ok"]
         ELSE IF s.iterations + 1 >= MAX_DAYS_TO_SEARCH
              THEN [s EXCEPT !.iterations = @ + 1,
                             !.status = "BusinessDaySearchException"]
              ELSE [s EXCEPT !.iterations = @ + 1, !.adjusted = @ + direction]

\* one pass of the while loop shared by both scans: the test of the loop
\* condition, the test of the iteration limit, then the single-day move
scanStep(s, direction, cal, weekend_days) ==
    IF s.status # "running" THEN s
    ELSE IF isBusinessDay(year_month_day(s.adjusted), cal, weekend_days)
         THEN [s EXCEPT !.status = "ok"]
         ELSE IF s.iterations + 1 > MAX_DAYS_TO_SEARCH
              THEN [s EXCEPT !.iterations = @ + 1,
                             !.status = "BusinessDaySearchException"]
              ELSE [s EXCEPT !.iterations = @ + 1, !.adjusted = @ + direction]

RECURSIVE scanLoop(_, _, _, _, _)
\* n passes of the loop, composed by halves to keep the evaluation shallow
scanLoop(s, n, direction, cal, weekend_days) ==
    IF s.status # "running" \/ n = 0 THEN s
    ELSE IF n = 1 THEN scanStep(s, direction, cal, weekend_days)
    ELSE scanLoop(scanLoop(s, n \div 2, direction, cal, weekend_days),
                  n - n \div 2, direction, cal, weekend_days)

\* mutant: the date returned is one day past the day the loop stopped at
scanResult_DayAfter(start, s) ==
    Scanned(s.status,
            IF s.status = "ok" THEN year_month_day(s.adjusted + 1) ELSE NoDate,
            Abs(s.adjusted - sys_days(start)))

\* what a scan from start returns or throws, with the steps it took
scanResult(start, s) ==
    Scanned(s.status,
            IF s.status = "ok" THEN year_month_day(s.adjusted) ELSE NoDate,
            Abs(s.adjusted - sys_days(start)))

moveToNextBusinessDay(start, cal, weekend_days) ==
    scanResult(start, scanLoop(ScanState(sys_days(start), 0, "running"),
                               LoopFuel, 1, cal, weekend_days))

\* mutant: the backward scan moves forward
moveToPreviousBusinessDay_Forward(start, cal, weekend_days) ==
    scanResult(start, scanLoop(ScanState(sys_days(start), 0, "running"),
                               LoopFuel, 1, cal, weekend_days))

moveToPreviousBusinessDay(start, cal, weekend_days) ==
    scanResult(start, scanLoop(ScanState(sys_days(start), 0, "running"),
                               LoopFuel, -1, cal, weekend_days))

-----------------------------------------------------------------------------
(* adjust: the five roll conventions *)

Conventions ==
    {"Following", "ModifiedFollowing", "Preceding", "ModifiedPreceding", "Unadjusted"}

\* mutant: the Modified conventions never test the month of the result
adjust_NoMonthTest(date, convention, cal, weekend_days) ==
    IF ~ok(date) THEN Scanned("invalid_argument", NoDate, 0)
    ELSE IF isBusinessDay(date, cal, weekend_days) THEN Scanned("ok", date, 0)
    ELSE CASE convention \in {"Following", "ModifiedFollowing"} ->
                moveToNextBusinessDay(date, cal, weekend_days)
           [] convention \in {"Preceding", "ModifiedPreceding"} ->
                moveToPreviousBusinessDay(date, cal, weekend_days)
           [] convention = "Unadjusted" -> Scanned("ok", date, 0)
           [] OTHER -> Scanned("UnhandledEnumException", NoDate, 0)

adjust(date, convention, cal, weekend_days) ==
    IF ~ok(date) THEN Scanned("invalid_argument", NoDate, 0)
    ELSE IF isBusinessDay(date, cal, weekend_days) THEN Scanned("ok", date, 0)
    ELSE CASE convention = "Following" ->
                moveToNextBusinessDay(date, cal, weekend_days)
           [] convention = "ModifiedFollowing" ->
                LET adjusted == moveToNextBusinessDay(date, cal, weekend_days)
                IN  IF adjusted.status # "ok" THEN adjusted
                    ELSE IF adjusted.date.month # date.month
                         THEN moveToPreviousBusinessDay(date, cal, weekend_days)
                         ELSE adjusted
           [] convention = "Preceding" ->
                moveToPreviousBusinessDay(date, cal, weekend_days)
           [] convention = "ModifiedPreceding" ->
                LET adjusted == moveToPreviousBusinessDay(date, cal, weekend_days)
                IN  IF adjusted.status # "ok" THEN adjusted
                    ELSE IF adjusted.date.month # date.month
                         THEN moveToNextBusinessDay(date, cal, weekend_days)
                         ELSE adjusted
           [] convention = "Unadjusted" -> Scanned("ok", date, 0)
           [] OTHER -> Scanned("UnhandledEnumException", NoDate, 0)

-----------------------------------------------------------------------------
(* advance: a date moved by a Period, then rolled *)

Period(value, unit) == [value |-> value, unit |-> unit]

Units == {"Days", "Weeks", "Months", "Years"}

\* the local variables of addBusinessDays
AddState(current, days_added, iterations, status) ==
    [current |-> current, days_added |-> days_added, iterations |-> iterations,
     status |-> status]

\* mutant: every calendar day passed is counted as a business day
addStep_CountsEveryDay(s, direction, target, cal, weekend_days) ==
    IF s.status # "running" THEN s
    ELSE IF ~(s.days_added < target) THEN [s EXCEPT !.status = "ok"]
    ELSE IF s.iterations + 1 > MAX_DAYS_TO_SEARCH
         THEN [s EXCEPT !.iterations = @ + 1,
                        !.status = "BusinessDaySearchException"]
         ELSE [s EXCEPT !.iterations = @ + 1, !.current = @ + direction,
                        !.days_added = @ + 1]

\* one pass of the while loop of addBusinessDays
addStep(s, direction, target, cal, weekend_days) ==
    IF s.status # "running" THEN s
    ELSE IF ~(s.days_added < target) THEN [s EXCEPT !.status = "ok"]
    ELSE IF s.iterations + 1 > MAX_DAYS_TO_SEARCH
         THEN [s EXCEPT !.iterations = @ + 1,
                        !.status = "BusinessDaySearchException"]
         ELSE LET current == s.current + direction
              IN  [s EXCEPT
                     !.iterations = @ + 1,
                     !.current = current,
                     !.days_added =
                         IF isBusinessDay(year_month_day(current), cal, weekend_days)
                         THEN @ + 1 ELSE @]

RECURSIVE addLoop(_, _, _, _, _, _)
\* n passes of the loop, composed by halves to keep the evaluation shallow
addLoop(s, n, direction, target, cal, weekend_days) ==
    IF s.status # "running" \/ n = 0 THEN s
    ELSE IF n = 1 THEN addStep(s, direction, target, cal, weekend_days)
    ELSE addLoop(addLoop(s, n \div 2, direction, target, cal, weekend_days),
                 n - n \div 2, direction, target, cal, weekend_days)

\* mutant: the loop moves forward whatever the sign of the count
addBusinessDays_IgnoresSign(start, num_business_days, cal, weekend_days) ==
    IF num_business_days = 0 THEN Scanned("ok", start, 0)
    ELSE scanResult(start,
             LET s == addLoop(AddState(sys_days(start), 0, 0, "running"), LoopFuel,
                              1, Abs(num_business_days), cal, weekend_days)
             IN  ScanState(s.current, s.iterations, s.status))

addBusinessDays(start, num_business_days, cal, weekend_days) ==
    IF num_business_days = 0 THEN Scanned("ok", start, 0)
    ELSE scanResult(start,
             LET s == addLoop(AddState(sys_days(start), 0, 0, "running"), LoopFuel,
                              IF num_business_days > 0 THEN 1 ELSE -1,
                              Abs(num_business_days), cal, weekend_days)
             IN  ScanState(s.current, s.iterations, s.status))

\* Weeks: 7 calendar days per week, for a value whose product with 7 and
\* whose target date are in range (advanceWeeksOutcomes covers the others)
advanceWeeks(date, value) == year_month_day(sys_days(date) + value * 7)

MonthCount(total_months, year_offset) ==
    [total_months |-> total_months, year_offset |-> year_offset]

RECURSIVE carryMonths(_, _)
\* while (total_months > 12): a year is carried
carryMonths(total_months, year_offset) ==
    IF total_months > 12
    THEN carryMonths(total_months - 12, year_offset + 1)
    ELSE MonthCount(total_months, year_offset)

\* mutant: the borrow loop stops at month 0
borrowMonths_StopsAtZero(total_months, year_offset) ==
    IF total_months < 0
    THEN MonthCount(total_months + 12 * ((-total_months + 11) \div 12),
                    year_offset - ((-total_months + 11) \div 12))
    ELSE MonthCount(total_months, year_offset)

RECURSIVE borrowMonths(_, _)
\* while (total_months < 1): a year is borrowed
borrowMonths(total_months, year_offset) ==
    IF total_months < 1
    THEN borrowMonths(total_months + 12, year_offset - 1)
    ELSE MonthCount(total_months, year_offset)

\* the two loops in sequence bring total_months into 1..12
normalizeMonths(total_months) ==
    LET carried == carryMonths(total_months, 0)
    IN  borrowMonths(carried.total_months, carried.year_offset)

\* mutant: a day past the end of the target month is kept
clampToMonth_NoClamp(new_year, new_month, d) == Date(new_year, new_month, d)

\* a (year, month, day) that is not ok() is replaced by the month's last day
clampToMonth(new_year, new_month, d) ==
    LET result_date == Date(new_year, new_month, d)
    IN  IF ~ok(result_date)
        THEN Date(new_year, new_month, last_day(new_year, new_month))
        ELSE result_date

advanceMonths(date, value) ==
    LET n == normalizeMonths(date.month + value)
    IN  clampToMonth(date.year + n.year_offset, n.total_months, date.day)

advanceYears(date, value) == clampToMonth(date.year + value, date.month, date.day)

\* result_date of advance before the convention is applied (units but Days)
advanceUnadjusted(date, period) ==
    CASE period.unit = "Weeks"  -> advanceWeeks(date, period.value)
      [] period.unit = "Months" -> advanceMonths(date, period.value)
      [] period.unit = "Years"  -> advanceYears(date, period.value)
      [] OTHER -> date

\* mutant: the convention is applied after a period of days as well
advance_AdjustsDays(date, period, convention, cal, weekend_days) ==
    IF ~ok(date) THEN Scanned("InvalidDateException", NoDate, 0)
    ELSE IF period.unit = "Days"
         THEN LET added == addBusinessDays(date, period.value, cal, weekend_days)
              IN  IF added.status # "ok" THEN added
                  ELSE adjust(added.date, convention, cal, weekend_days)
         ELSE adjust(advanceUnadjusted(date, period), convention, cal, weekend_days)

advance(date, period, convention, cal, weekend_days) ==
    IF ~ok(date) THEN Scanned("InvalidDateException", NoDate, 0)
    ELSE IF period.unit = "Days"
         THEN addBusinessDays(date, period.value, cal, weekend_days)
         ELSE adjust(advanceUnadjusted(date, period), convention, cal, weekend_days)

-----------------------------------------------------------------------------
(* Period::parse: strings are sequences of characters, indexed from 0 in the
   code and from 1 here *)

\* the largest and the smallest value of int
INT_MAX == 2147483647
INT_MIN == -INT_MAX - 1

DigitChars == <<"0", "1", "2", "3", "4", "5", "6", "7", "8", "9">>

\* std::isdigit
isdigit(c) == \E i \in 1..10 : DigitChars[i] = c

\* the value of a digit character
digitValue(c) == (CHOOSE i \in 1..10 : DigitChars[i] = c) - 1

\* mutant: the unit letter is compared as written
toupper_Identity(c) == c

\* std::toupper on the letters that occur
toupper(c) ==
    CASE c = "d" -> "D"
      [] c = "w" -> "W"
      [] c = "m" -> "M"
      [] c = "y" -> "Y"
      [] c = "x" -> "X"
      [] OTHER   -> c

\* what Period::parse returns or throws; what names the message thrown
Parsed(status, what, value, unit) ==
    [status |-> status, what |-> what, value |-> value, unit |-> unit]

ParseFailed(what) == Parsed("invalid_argument", what, 0, "none")

RECURSIVE digitsEnd(_, _)
\* while (numeric_end < length && isdigit(period_str[numeric_end])) numeric_end++
digitsEnd(period_str, numeric_end) ==
    IF numeric_end < Len(period_str) /\ isdigit(period_str[numeric_end + 1])
    THEN digitsEnd(period_str, numeric_end + 1)
    ELSE numeric_end

\* validateAndFindNumericEnd: the index of the unit character, or the failure
validateAndFindNumericEnd(period_str) ==
    IF period_str = <<>>
    THEN [status |-> "invalid_argument", what |-> "cannot be empty",
          numeric_end |-> 0, has_sign |-> FALSE]
    ELSE LET has_sign    == period_str[1] \in {"+", "-"}
             first       == IF has_sign THEN 1 ELSE 0
             numeric_end == digitsEnd(period_str, first)
         IN  IF numeric_end = first
             THEN [status |-> "invalid_argument",
                   what |-> "must contain a numeric value",
                   numeric_end |-> numeric_end, has_sign |-> has_sign]
             ELSE IF numeric_end + 1 # Len(period_str)
             THEN [status |-> "invalid_argument",
                   what |-> "must end with a single unit character",
                   numeric_end |-> numeric_end, has_sign |-> has_sign]
             ELSE [status |-> "ok", what |-> "",
                   numeric_end |-> numeric_end, has_sign |-> has_sign]

RECURSIVE accumulate(_, _, _)
\* the digits from index i on, accumulated below zero so that INT_MIN fits;
\* range is FALSE once the number has left the range of int
accumulate(digits, i, acc) ==
    IF i > Len(digits) THEN [value |-> acc, range |-> TRUE]
    ELSE LET d == digitValue(digits[i])
         IN  IF acc < (INT_MIN + d) \div 10 + (IF (INT_MIN + d) % 10 = 0 THEN 0 ELSE 1)
             THEN [value |-> 0, range |-> FALSE]
             ELSE accumulate(digits, i + 1, acc * 10 - d)

\* std::stoi of an optional sign and a run of digits: the value, or
\* std::out_of_range when it does not fit int
stoi(str) ==
    LET has_sign == str[1] \in {"+", "-"}
        negative == str[1] = "-"
        digits   == SubSeq(str, IF has_sign THEN 2 ELSE 1, Len(str))
        acc      == accumulate(digits, 1, 0)
    IN  IF ~acc.range \/ (~negative /\ acc.value = INT_MIN)
        THEN [status |-> "out_of_range", value |-> 0]
        ELSE [status |-> "ok",
              value |-> IF negative THEN acc.value ELSE -acc.value]

\* parseNumericValue: every exception of std::stoi becomes invalid_argument
parseNumericValue(period_str, numeric_end) ==
    LET n == stoi(SubSeq(period_str, 1, numeric_end))
    IN  IF n.status # "ok"
        THEN [status |-> "invalid_argument", what |-> "Invalid numeric value",
              value |-> 0]
        ELSE [status |-> "ok", what |-> "", value |-> n.value]

\* parseUnit: the unit of the character at unit_index
parseUnit(period_str, unit_index) ==
    LET unit_char == toupper(period_str[unit_index + 1])
    IN  CASE unit_char = "D" -> [status |-> "ok", what |-> "", unit |-> "Days"]
          [] unit_char = "W" -> [status |-> "ok", what |-> "", unit |-> "Weeks"]
          [] unit_char = "M" -> [status |-> "ok", what |-> "", unit |-> "Months"]
          [] unit_char = "Y" -> [status |-> "ok", what |-> "", unit |-> "Years"]
          [] OTHER -> [status |-> "invalid_argument",
                       what |-> "Invalid period unit", unit |-> "none"]

\* Period::parse
parse(period_str) ==
    LET found == validateAndFindNumericEnd(period_str)
    IN  IF found.status # "ok" THEN ParseFailed(found.what)
        ELSE LET value == parseNumericValue(period_str, found.numeric_end)
             IN  IF value.status # "ok" THEN ParseFailed(value.what)
                 ELSE LET unit == parseUnit(period_str, found.numeric_end)
                      IN  IF unit.status # "ok" THEN ParseFailed(unit.what)
                          ELSE Parsed("ok", "", value.value, unit.unit)

-----------------------------------------------------------------------------
(* Inputs of the exploration *)

\* first days of the windows of input dates: year and month ends, a leap day,
\* weekends at the end and at the start of a month
WindowStarts ==
    {Date(2023, 12, 28), Date(2024, 2, 27), Date(2024, 5, 30),
     Date(2024, 6, 27), Date(2024, 12, 28)}

Window(first) == {year_month_day(sys_days(first) + k) : k \in 0..(WindowLen - 1)}

\* a year_month_day that is not ok()
InvalidDate == Date(2023, 2, 29)

InputDates == UNION {Window(first) : first \in WindowStarts} \cup {InvalidDate}

DefaultWeekend == {Saturday, Sunday}

AllWeekdays == 0..6

WeekendChoices == {DefaultWeekend, {}, {Friday, Saturday}, {Sunday}, AllWeekdays}

HolidayChoices == {Date(2024, 1, 1), Date(2024, 5, 31)}

NullRule == Rule("null", "", NoDate, 0, 0, 0, 0)

RuleChoices ==
    {FixedDateRule("Leap Day", 2, 29),
     NthWeekdayRule("Fifth Friday of May", 5, Friday, 5),
     NullRule}

-----------------------------------------------------------------------------
(* State: one calendar and the call in progress, if any *)

NoResult == Scanned("none", NoDate, 0)

NoCall ==
    [op |-> "none", date |-> NoDate, convention |-> "Unadjusted",
     weekend_days |-> {}, period |-> Period(0, "Days"), flag |-> FALSE,
     result |-> NoResult, unadjusted |-> NoDate, origin |-> NoDate,
     text |-> <<>>, parsed |-> Parsed("none", "", 0, "none"),
     year |-> 0, answer |-> Answer("none", FALSE, <<>>, <<>>),
     rule |-> NullRule, value |-> 0, end |-> NoDate,
     counted |-> [status |-> "none", days |-> 0, terms |-> <<>>]]

Init ==
    /\ explicitHolidays_ = {}
    /\ rules_ = <<>>
    /\ call = NoCall
    /\ calendar2 = Calendar({}, <<>>)

idle == call.op = "none"

\* HolidayCalendar::addHoliday
addHoliday(date) ==
    /\ idle
    /\ Cardinality(explicitHolidays_) + Len(rules_) < MaxEntries
    /\ explicitHolidays_' = explicitHolidays_ \cup {date}
    /\ UNCHANGED <<rules_, call, calendar2>>

\* HolidayCalendar::addRule: a null rule is ignored
addRule(rule) ==
    /\ idle
    /\ Cardinality(explicitHolidays_) + Len(rules_) < MaxEntries
    /\ rules_' = IF rule # NullRule THEN Append(rules_, rule) ELSE rules_
    /\ UNCHANGED <<explicitHolidays_, call, calendar2>>

\* HolidayCalendar::clear
clear ==
    /\ idle
    /\ explicitHolidays_' = {}
    /\ rules_' = <<>>
    /\ UNCHANGED <<call, calendar2>>

\* every day of 2023, 2024 and 2025 added to a fresh calendar
addAllHolidays ==
    /\ idle
    /\ explicitHolidays_ = {} /\ rules_ = <<>>
    /\ explicitHolidays_' =
           LET days_in_month(y, m) ==
                   IF m = 2 THEN (IF y = 2024 THEN 29 ELSE 28)
                   ELSE IF m \in {4, 6, 9, 11} THEN 30 ELSE 31
           IN  UNION {{Date(y, m, d) : d \in 1..days_in_month(y, m)} :
                          y \in 2023..2025, m \in 1..12}
    /\ UNCHANGED <<rules_, call, calendar2>>

-----------------------------------------------------------------------------
(* Calls of the API on the calendar of the current state *)

\* isBusinessDay(date, calendar, weekend_days)
IsBusinessDay(date, weekend_days) ==
    /\ idle
    /\ call' = [NoCall EXCEPT
                   !.op = "isBusinessDay", !.date = date,
                   !.weekend_days = weekend_days,
                   !.flag = IF ok(date)
                            THEN isBusinessDay(date, calendar, weekend_days)
                            ELSE FALSE,
                   !.result = IF ok(date) THEN Scanned("ok", NoDate, 0)
                              ELSE Scanned("invalid_argument", NoDate, 0)]
    /\ UNCHANGED <<explicitHolidays_, rules_, calendar2>>

\* adjust(date, convention, calendar, weekend_days)
Adjust(date, convention, weekend_days) ==
    /\ idle
    /\ call' = [NoCall EXCEPT
                   !.op = "adjust", !.date = date, !.convention = convention,
                   !.weekend_days = weekend_days, !.origin = date,
                   !.result = adjust(date, convention, calendar, weekend_days)]
    /\ UNCHANGED <<explicitHolidays_, rules_, calendar2>>

\* adjust applied to the date a call of adjust returned, same arguments
AdjustAgain ==
    /\ call.op = "adjust"
    /\ call.result.status = "ok"
    /\ call' = [call EXCEPT
                   !.op = "adjustAgain", !.date = call.result.date,
                   !.result = adjust(call.result.date, call.convention, calendar,
                                     call.weekend_days)]
    /\ UNCHANGED <<explicitHolidays_, rules_, calendar2>>

\* the caller is done with the result of the call
Done ==
    /\ ~idle
    /\ call' = NoCall
    /\ UNCHANGED <<explicitHolidays_, rules_, calendar2>>

Next ==
    \/ \E date \in HolidayChoices : addHoliday(date)
    \/ \E rule \in RuleChoices : addRule(rule)
    \/ clear
    \/ addAllHolidays
    \/ /\ idle
       /\ \E date \in InputDates, weekend_days \in WeekendChoices :
             IsBusinessDay(date, weekend_days)
    \/ /\ idle
       /\ \E date \in InputDates, convention \in Conventions,
             weekend_days \in WeekendChoices :
             Adjust(date, convention, weekend_days)
    \/ AdjustAgain
    \/ Done

Spec == Init /\ [][Next]_vars

-----------------------------------------------------------------------------
(* Calls of advance *)

\* advance(date, period, convention, calendar, weekend_days); unadjusted is
\* result_date as it stands before the convention is applied
Advance(date, period, convention, weekend_days) ==
    /\ idle
    /\ call' = [NoCall EXCEPT
                   !.op = "advance", !.date = date, !.period = period,
                   !.convention = convention, !.weekend_days = weekend_days,
                   !.origin = date,
                   !.unadjusted = IF ok(date) /\ period.unit # "Days"
                                  THEN advanceUnadjusted(date, period)
                                  ELSE NoDate,
                   !.result = advance(date, period, convention, calendar,
                                      weekend_days)]
    /\ UNCHANGED <<explicitHolidays_, rules_, calendar2>>

\* advance by the opposite period from the date a call of advance returned
AdvanceBack ==
    /\ call.op = "advance"
    /\ call.result.status = "ok"
    /\ LET back == Period(-call.period.value, call.period.unit)
       IN  call' = [call EXCEPT
                      !.op = "advanceBack", !.date = call.result.date,
                      !.period = back,
                      !.unadjusted = IF back.unit # "Days"
                                     THEN advanceUnadjusted(call.result.date, back)
                                     ELSE NoDate,
                      !.result = advance(call.result.date, back, call.convention,
                                         calendar, call.weekend_days)]
    /\ UNCHANGED <<explicitHolidays_, rules_, calendar2>>

\* periods of business days, and of no or one week, month or year
AdvancePeriods ==
    {Period(value, "Days") : value \in (-MaxDays)..MaxDays}
        \cup {Period(value, unit) : value \in {-1, 0, 1},
                                    unit \in {"Weeks", "Months", "Years"}}

AdvanceWeekends == {DefaultWeekend, {}, {Friday, Saturday}, AllWeekdays}

NextAdvance ==
    \/ \E date \in HolidayChoices : addHoliday(date)
    \/ clear
    \/ /\ idle
       /\ \E date \in InputDates, period \in AdvancePeriods,
             convention \in Conventions, weekend_days \in AdvanceWeekends :
             Advance(date, period, convention, weekend_days)
    \/ Done

SpecAdvance == Init /\ [][NextAdvance]_vars

\* the first, the middle and the last days of every month of two years
MonthDates ==
    {date \in {Date(y, m, d) : y \in {2023, 2024}, m \in 1..12,
                                d \in {1, 15, 28, 29, 30, 31}} : ok(date)}

\* periods of months and of years, across several year boundaries
MonthPeriods ==
    {Period(value, "Months") : value \in (-MaxMonths)..MaxMonths}
        \cup {Period(value, "Years") : value \in (-MaxYears)..MaxYears}

NextMonths ==
    \/ \E date \in HolidayChoices : addHoliday(date)
    \/ clear
    \/ /\ idle
       /\ \E date \in MonthDates, period \in MonthPeriods,
             convention \in {"Unadjusted", "Following"} :
             Advance(date, period, convention, DefaultWeekend)
    \/ AdvanceBack
    \/ Done

SpecMonths == Init /\ [][NextMonths]_vars

-----------------------------------------------------------------------------
(* Claims about isBusinessDay and adjust, checked under Spec *)

\* the date k days after date (before it for negative k)
PlusDays(date, k) == year_month_day(sys_days(date) + k)

\* the call in progress is adjust on a valid date under this convention
Adjusting(convention) ==
    call.op = "adjust" /\ ok(call.date) /\ call.convention = convention

BusinessNow(date) == isBusinessDay(date, calendar, call.weekend_days)

\* C1: for a valid date, any calendar and any weekend set, isBusinessDay
\* returns true exactly when the date's day of week is not in the weekend set
\* and the calendar does not hold the date as a holiday.
C1_IsBusinessDayIff ==
    (call.op = "isBusinessDay" /\ ok(call.date)) =>
        /\ call.result.status = "ok"
        /\ call.flag = (/\ dayOfWeek(call.date) \notin call.weekend_days
                        /\ ~isHoliday(calendar, call.date))

\* C1 witness: a Sunday is a business day under a Friday/Saturday weekend
C1_Witness ==
    /\ call.op = "isBusinessDay"
    /\ call.weekend_days = {Friday, Saturday}
    /\ dayOfWeek(call.date) = Sunday
    /\ call.flag

\* C2: when adjust returns under Following, the result is the earliest
\* business day on or after the date; under Preceding, the latest business
\* day on or before it.
C2_NearestBusinessDay ==
    /\ (Adjusting("Following") /\ call.result.status = "ok") =>
          LET d == sys_days(call.date)
              r == sys_days(call.result.date)
          IN  /\ r >= d
              /\ BusinessNow(call.result.date)
              /\ \A z \in d..(r - 1) : ~BusinessNow(year_month_day(z))
    /\ (Adjusting("Preceding") /\ call.result.status = "ok") =>
          LET d == sys_days(call.date)
              r == sys_days(call.result.date)
          IN  /\ r <= d
              /\ BusinessNow(call.result.date)
              /\ \A z \in (r + 1)..d : ~BusinessNow(year_month_day(z))

\* C2 witness: Preceding moved a date back over a holiday and a weekend
C2_Witness ==
    /\ Adjusting("Preceding")
    /\ call.result.status = "ok"
    /\ sys_days(call.result.date) = sys_days(call.date) - 3
    /\ call.date \in explicitHolidays_

\* C3: for a date that is not a business day, ModifiedFollowing returns the
\* Following result when it lies in the month of the date and the Preceding
\* result otherwise; ModifiedPreceding returns the Preceding result when it lies
\* in the month of the date and the Following result otherwise.
C3_ModifiedConventions ==
    LET following == moveToNextBusinessDay(call.date, calendar, call.weekend_days)
        preceding == moveToPreviousBusinessDay(call.date, calendar, call.weekend_days)
    IN  /\ (/\ Adjusting("ModifiedFollowing")
             /\ ~BusinessNow(call.date)
             /\ call.result.status = "ok") =>
              /\ following.status = "ok"
              /\ IF following.date.month = call.date.month
                 THEN call.result.date = following.date
                 ELSE preceding.status = "ok" /\ call.result.date = preceding.date
        /\ (/\ Adjusting("ModifiedPreceding")
             /\ ~BusinessNow(call.date)
             /\ call.result.status = "ok") =>
              /\ preceding.status = "ok"
              /\ IF preceding.date.month = call.date.month
                 THEN call.result.date = preceding.date
                 ELSE following.status = "ok" /\ call.result.date = following.date

\* C3 witness: ModifiedFollowing fell back to the day before the weekend
C3_Witness ==
    /\ Adjusting("ModifiedFollowing")
    /\ call.result.status = "ok"
    /\ DateLess(call.result.date, call.date)

\* C4: adjust is idempotent: adjust applied to a date adjust returned, with
\* the same convention, calendar and weekend set, returns that date; and a
\* date that is a business day is returned unchanged under every convention.
C4_AdjustIdempotent ==
    /\ call.op = "adjustAgain" =>
          call.result.status = "ok" /\ call.result.date = call.date
    /\ (call.op = "adjust" /\ ok(call.date) /\ BusinessNow(call.date)) =>
          call.result.status = "ok" /\ call.result.date = call.date

\* C4 witness: a second adjust of a date the first adjust had moved
C4_Witness ==
    /\ call.op = "adjustAgain"
    /\ call.origin # call.date
    /\ call.convention = "ModifiedPreceding"
    /\ call.result.date = call.date

\* C5: a directional scan of adjust examines the start date and at most 366
\* further days: it returns the first business day at distance 0..366 from the
\* start, throws BusinessDaySearchException when none of those 367 dates is a
\* business day, and never takes a 367th step.
C5_ScanBounded ==
    \A convention \in {"Following", "Preceding"} :
        Adjusting(convention) =>
            LET direction == IF convention = "Following" THEN 1 ELSE -1
                hits == {k \in 0..MAX_DAYS_TO_SEARCH :
                            BusinessNow(PlusDays(call.date, direction * k))}
            IN  /\ call.result.steps <= MAX_DAYS_TO_SEARCH
                /\ IF hits # {}
                   THEN LET first == CHOOSE k \in hits : \A j \in hits : k <= j
                        IN  /\ call.result.status = "ok"
                            /\ call.result.date =
                                   PlusDays(call.date, direction * first)
                            /\ call.result.steps = first
                   ELSE /\ call.result.status = "BusinessDaySearchException"
                        /\ call.result.steps = MAX_DAYS_TO_SEARCH

\* C5 witness: a scan that found its business day on the 366th step
C5_Witness ==
    /\ call.op = "adjust"
    /\ call.result.status = "ok"
    /\ call.result.steps = MAX_DAYS_TO_SEARCH

-----------------------------------------------------------------------------
(* Claims about advance by business days, checked under SpecAdvance *)

\* the call in progress is advance on a valid date by a period of this unit
Advancing(unit) ==
    call.op = "advance" /\ ok(call.date) /\ call.period.unit = unit

\* the number of business days among the days first..last
BusinessDaysIn(first, last) ==
    Cardinality({z \in first..last : BusinessNow(year_month_day(z))})

\* C6: when advance by n # 0 business days returns e, e is the |n|-th
\* business day strictly after the date for n > 0 and strictly before it for
\* n < 0, whatever the convention passed.
C6_NthBusinessDay ==
    (Advancing("Days") /\ call.period.value # 0 /\ call.result.status = "ok") =>
        LET n == call.period.value
            d == sys_days(call.date)
            e == sys_days(call.result.date)
        IN  /\ BusinessNow(call.result.date)
            /\ IF n > 0
               THEN e > d /\ BusinessDaysIn(d + 1, e) = n
               ELSE e < d /\ BusinessDaysIn(e, d - 1) = -n

\* C6 witness: three business days back lie more than five calendar days back
C6_Witness ==
    /\ Advancing("Days")
    /\ call.period.value = -3
    /\ call.result.status = "ok"
    /\ sys_days(call.date) - sys_days(call.result.date) > 5

C10_Original ==
    (call.op = "advance" /\ ok(call.date) /\ call.period.value = 0) =>
        call.result.status = "ok" /\ call.result.date = call.date

\* C10 amended: a period of value zero returns the date unchanged for unit
\* Days under every convention, and for the other units when the convention is
\* Unadjusted or the date is a business day; otherwise it returns what adjust
\* returns for the date.
C10_ZeroPeriod ==
    (call.op = "advance" /\ ok(call.date) /\ call.period.value = 0) =>
        IF \/ call.period.unit = "Days"
           \/ call.convention = "Unadjusted"
           \/ BusinessNow(call.date)
        THEN call.result.status = "ok" /\ call.result.date = call.date
        ELSE call.result =
                 adjust(call.date, call.convention, calendar, call.weekend_days)

\* C10 witness: zero days under Following from a day that is not a business day
C10_Witness ==
    /\ Advancing("Days")
    /\ call.period.value = 0
    /\ call.convention = "Following"
    /\ ~BusinessNow(call.date)
    /\ call.result.date = call.date

-----------------------------------------------------------------------------
(* Claims about advance by months and years, checked under SpecMonths *)

Min(a, b) == IF a < b THEN a ELSE b

\* C8: before the convention is applied, advance of (y, m, d) by n months gives
\* year y + floor((m - 1 + n) / 12) and month ((m - 1 + n) mod 12) + 1, advance
\* by n years gives year y + n and month m, and the day is the smaller of d and
\* the length of the target month, so that the date is valid.
C8_MonthArithmetic ==
    (call.op \in {"advance", "advanceBack"} /\ ok(call.date)) =>
        LET n == call.period.value
            y == call.date.year
            m == call.date.month
            d == call.date.day
        IN  /\ call.period.unit = "Months" =>
                  LET ty == y + (m - 1 + n) \div 12
                      tm == ((m - 1 + n) % 12) + 1
                  IN  /\ call.unadjusted = Date(ty, tm, Min(d, daysInMonth(ty, tm)))
                      /\ ok(call.unadjusted)
            /\ call.period.unit = "Years" =>
                  /\ call.unadjusted = Date(y + n, m, Min(d, daysInMonth(y + n, m)))
                  /\ ok(call.unadjusted)

\* C8 witness: thirteen or more months back, into a shorter month
C8_Witness ==
    /\ Advancing("Months")
    /\ call.period.value < -12
    /\ call.unadjusted.year = call.date.year - 2
    /\ call.unadjusted.day < call.date.day

\* C9: under Unadjusted, one month forward and one month back returns the
\* start date exactly when its day does not exceed the length of the following
\* month, and a different date exactly when the step forward clamped the day.
C9_MonthRoundTrip ==
    /\ (Advancing("Months") /\ call.convention = "Unadjusted") =>
          call.result.status = "ok"
    /\ (/\ call.op = "advanceBack"
         /\ call.convention = "Unadjusted"
         /\ call.period = Period(-1, "Months")) =>
          LET d == call.origin
              ny == IF d.month = 12 THEN d.year + 1 ELSE d.year
              nm == IF d.month = 12 THEN 1 ELSE d.month + 1
              fits == d.day <= daysInMonth(ny, nm)
              clamped == call.date.day # d.day
          IN  /\ call.result.status = "ok"
              /\ (call.result.date = d) <=> fits
              /\ (call.result.date # d) <=> clamped

\* C9 witness: January 31 does not come back from February
C9_Witness ==
    /\ call.op = "advanceBack"
    /\ call.convention = "Unadjusted"
    /\ call.period = Period(-1, "Months")
    /\ call.origin = Date(2024, 1, 31)
    /\ call.result.date = Date(2024, 1, 29)

-----------------------------------------------------------------------------
(* Calls of Period::parse *)

\* what may stand before the digits
ParseSigns == {<<>>, <<"+">>, <<"-">>, <<" ">>}

\* runs of digits: none, small, with leading zeros, around INT_MAX, too long
ParseDigits ==
    {<<>>, <<"0">>, <<"5">>, <<"1", "2">>, <<"0", "0", "7">>,
     <<"2", "1", "4", "7", "4", "8", "3", "6", "4", "7">>,
     <<"2", "1", "4", "7", "4", "8", "3", "6", "4", "8">>,
     <<"2", "1", "4", "7", "4", "8", "3", "6", "4", "9">>,
     <<"0", "0", "2", "1", "4", "7", "4", "8", "3", "6", "4", "7">>,
     <<"9", "9", "9", "9", "9", "9", "9", "9", "9", "9", "9">>}

\* what may stand after the digits
ParseSuffixes ==
    {<<>>, <<"D">>, <<"d">>, <<"W">>, <<"w">>, <<"M">>, <<"m">>, <<"Y">>,
     <<"y">>, <<"X">>, <<"D", "D">>, <<".", "5", "D">>, <<" ", "D">>,
     <<"D", " ">>, <<"Y", "6", "M">>}

ParseInputs ==
    {sign \o digits \o suffix :
        sign \in ParseSigns, digits \in ParseDigits, suffix \in ParseSuffixes}

\* Period::parse(period_str)
Parse(period_str) ==
    /\ idle
    /\ call' = [NoCall EXCEPT
                   !.op = "parse", !.text = period_str,
                   !.parsed = parse(period_str)]
    /\ UNCHANGED <<explicitHolidays_, rules_, calendar2>>

NextParse ==
    \/ /\ idle
       /\ \E period_str \in ParseInputs : Parse(period_str)
    \/ Done

SpecParse == Init /\ [][NextParse]_vars

-----------------------------------------------------------------------------
(* Claims about Period::parse, checked under SpecParse *)

UnitLetters == {"D", "W", "M", "Y", "d", "w", "m", "y"}

\* the text without its sign
Unsigned(text) ==
    IF text # <<>> /\ text[1] \in {"+", "-"} THEN Tail(text) ELSE text

\* an optional sign, one or more digits, then exactly one character that is
\* not a digit
NumberAndOne(text) ==
    LET body == Unsigned(text)
    IN  /\ Len(body) >= 2
        /\ \A i \in 1..(Len(body) - 1) : isdigit(body[i])
        /\ ~isdigit(body[Len(body)])

\* an optional sign, one or more digits, then exactly one unit letter
WellFormed(text) ==
    NumberAndOne(text) /\ Unsigned(text)[Len(Unsigned(text))] \in UnitLetters

RECURSIVE StripZeros(_)
StripZeros(digits) ==
    IF Len(digits) > 1 /\ digits[1] = "0" THEN StripZeros(Tail(digits))
    ELSE digits

\* digit runs of one length compared as numbers
DigitsLeq(a, b) ==
    \/ a = b
    \/ \E k \in 1..Len(a) :
          /\ \A i \in 1..(k - 1) : a[i] = b[i]
          /\ digitValue(a[k]) < digitValue(b[k])

\* the signed number of a text that satisfies NumberAndOne fits int
Fits(text) ==
    LET body   == Unsigned(text)
        digits == StripZeros(SubSeq(body, 1, Len(body) - 1))
        limit  == IF text[1] = "-"
                  THEN <<"2", "1", "4", "7", "4", "8", "3", "6", "4", "8">>
                  ELSE <<"2", "1", "4", "7", "4", "8", "3", "6", "4", "7">>
    IN  \/ Len(digits) < Len(limit)
        \/ Len(digits) = Len(limit) /\ DigitsLeq(digits, limit)

RECURSIVE Magnitude(_)
\* minus the number a run of digits denotes
Magnitude(digits) ==
    IF digits = <<>> THEN 0
    ELSE Magnitude(SubSeq(digits, 1, Len(digits) - 1)) * 10
             - digitValue(digits[Len(digits)])

\* the value and the unit a well-formed text that fits denotes
Denoted(text) ==
    LET body   == Unsigned(text)
        digits == StripZeros(SubSeq(body, 1, Len(body) - 1))
        letter == body[Len(body)]
    IN  Parsed("ok", "",
               IF text[1] = "-" THEN Magnitude(digits) ELSE -Magnitude(digits),
               CASE letter \in {"D", "d"} -> "Days"
                 [] letter \in {"W", "w"} -> "Weeks"
                 [] letter \in {"M", "m"} -> "Months"
                 [] letter \in {"Y", "y"} -> "Years")

FormatMessages ==
    {"cannot be empty", "must contain a numeric value",
     "must end with a single unit character", "Invalid period unit"}

\* C11 as stated: parse succeeds exactly on the well-formed texts that fit and
\* yields the value and unit; every text that is not well-formed is rejected
\* with a format failure, and the numeric failure is that of the well-formed
\* texts whose digits do not fit
C11_Original ==
    call.op = "parse" =>
        /\ call.parsed.status = "ok" <=> (WellFormed(call.text) /\ Fits(call.text))
        /\ call.parsed.status = "ok" => call.parsed = Denoted(call.text)
        /\ ~WellFormed(call.text) =>
              /\ call.parsed.status = "invalid_argument"
              /\ call.parsed.what \in FormatMessages
        /\ (WellFormed(call.text) /\ ~Fits(call.text)) =>
              call.parsed = ParseFailed("Invalid numeric value")

\* C11 amended: parse succeeds exactly on the well-formed texts that fit and
\* yields the value and unit; every failure is an invalid_argument; the
\* numeric failure is that of every text made of an optional sign, digits that
\* do not fit and one more character that is not a digit, whether or not that
\* character is a unit letter; all other rejected texts get a format failure.
C11_ParseGrammar ==
    call.op = "parse" =>
        /\ call.parsed.status = "ok" <=> (WellFormed(call.text) /\ Fits(call.text))
        /\ call.parsed.status = "ok" => call.parsed = Denoted(call.text)
        /\ call.parsed.status # "ok" =>
              /\ call.parsed.status = "invalid_argument"
              /\ call.parsed.value = 0
              /\ IF NumberAndOne(call.text) /\ ~Fits(call.text)
                 THEN call.parsed.what = "Invalid numeric value"
                 ELSE call.parsed.what \in FormatMessages

\* C11 witness: the smallest int is parsed, with a lower-case unit letter
C11_Witness ==
    /\ call.op = "parse"
    /\ call.parsed = Parsed("ok", "", INT_MIN, "Years")
    /\ call.text[Len(call.text)] = "y"

-----------------------------------------------------------------------------
(* Queries of the calendar *)

\* rules that coincide with each other and with an explicit date in 2024, and
\* rules that yield no date in 2023
CalendarRules ==
    RuleChoices \cup
        {ExplicitDateRule("New Year 2024", Date(2024, 1, 1)),
         FixedDateRule("End of May", 5, 31),
         NthWeekdayRule("Last Friday of May", 5, Friday, -1)}

QueryYears == {2023, 2024, 2025}

\* dates queried: the input windows, and the same days one year earlier
QueryDates ==
    LET valid == {date \in InputDates : ok(date)}
    IN  valid \cup {date \in {Date(d.year - 1, d.month, d.day) : d \in valid} :
                        ok(date)}

\* calendar.isHoliday(date)
IsHoliday(date) ==
    /\ idle
    /\ call' = [NoCall EXCEPT
                   !.op = "isHoliday", !.date = date,
                   !.answer = HolidayCalendar_isHoliday(calendar, date)]
    /\ UNCHANGED <<explicitHolidays_, rules_, calendar2>>

\* calendar.getHolidays(year)
GetHolidays(year) ==
    /\ idle
    /\ call' = [NoCall EXCEPT
                   !.op = "getHolidays", !.year = year,
                   !.answer = getHolidays(calendar, year)]
    /\ UNCHANGED <<explicitHolidays_, rules_, calendar2>>

\* calendar.getHolidayNames(date)
GetHolidayNames(date) ==
    /\ idle
    /\ call' = [NoCall EXCEPT
                   !.op = "getHolidayNames", !.date = date,
                   !.answer = getHolidayNames(calendar, date)]
    /\ UNCHANGED <<explicitHolidays_, rules_, calendar2>>

NextCalendar ==
    \/ \E date \in HolidayChoices : addHoliday(date)
    \/ \E rule \in CalendarRules : addRule(rule)
    \/ clear
    \/ /\ idle
       /\ \E date \in QueryDates : IsHoliday(date)
    \/ /\ idle
       /\ \E year \in QueryYears : GetHolidays(year)
    \/ /\ idle
       /\ \E date \in QueryDates : GetHolidayNames(date)
    \/ Done

SpecCalendar == Init /\ [][NextCalendar]_vars

-----------------------------------------------------------------------------
(* Claims about HolidayCalendar, checked under SpecCalendar *)

\* the rule designates the date: stated on the calendar, with the weekday of
\* Date::dayOfWeek and the month length of Date::daysInMonth
RuleYields(rule, date) ==
    CASE rule.kind = "Explicit" -> date = rule.date
      [] rule.kind = "Fixed" ->
            date.month = rule.month /\ date.day = rule.day
      [] rule.kind = "NthWeekday" ->
            /\ date.month = rule.month
            /\ dayOfWeek(date) = rule.weekday
            /\ IF rule.occurrence > 0
               THEN date.day \in (7 * (rule.occurrence - 1) + 1)..(7 * rule.occurrence)
               ELSE date.day > daysInMonth(date.year, date.month) - 7

\* the date was added to the calendar or one of its rules designates it
Holiday(cal, date) ==
    \/ date \in cal.explicitHolidays
    \/ \E i \in 1..Len(cal.rules) : RuleYields(cal.rules[i], date)

\* C12: in every state reached by addHoliday, addRule and clear, isHoliday(d)
\* is true exactly when d is among the dates added since the last clear or a
\* rule added since then designates d in d's year; and a step that empties
\* the calendar leaves no holiday: isHoliday is false for every date and
\* getHolidays is empty for every year.
C12_IsHolidayIff ==
    /\ [](call.op = "isHoliday" =>
             call.answer = Answer("ok", Holiday(calendar, call.date), <<>>, <<>>))
    /\ [][(/\ Cardinality(explicitHolidays_) + Len(rules_) > 0
            /\ explicitHolidays_' = {} /\ rules_' = <<>>) =>
              /\ \A date \in QueryDates :
                    ~HolidayCalendar_isHoliday(calendar', date).flag
              /\ \A year \in QueryYears :
                    getHolidays(calendar', year).list = <<>>]_vars

\* C12 witness: the second rule of the list makes the date a holiday, the
\* first yields no date in that year
C12_Witness ==
    /\ call.op = "isHoliday"
    /\ call.answer.flag
    /\ call.date \notin explicitHolidays_
    /\ Len(rules_) = 2
    /\ calculateDate(rules_[1], call.date.year).status # "ok"

\* every date of a year
YearDates(year) ==
    UNION {{Date(year, m, d) : d \in 1..daysInMonth(year, m)} : m \in 1..12}

\* C13: getHolidays(y) returns a strictly ascending list whose elements are
\* exactly the dates of year y that are holidays of the calendar: the explicit
\* dates of y and the dates the rules designate in y, each once.
C13_GetHolidaysSorted ==
    call.op = "getHolidays" =>
        LET list == call.answer.list
        IN  /\ call.answer.status = "ok"
            /\ \A i \in 1..(Len(list) - 1) :
                  sys_days(list[i]) < sys_days(list[i + 1])
            /\ {list[i] : i \in 1..Len(list)} =
                  {date \in YearDates(call.year) : Holiday(calendar, date)}

\* C13 witness: an explicit date and a rule yield the same date, listed once
C13_Witness ==
    /\ call.op = "getHolidays"
    /\ Len(call.answer.list) = 1
    /\ call.answer.list[1] \in explicitHolidays_
    /\ Len(rules_) = 1
    /\ calculateDate(rules_[1], call.year) = Returned(call.answer.list[1])

\* the year a query evaluates the rules for
QueriedYear == IF call.op = "getHolidays" THEN call.year ELSE call.date.year

\* the calendar without the rules that yield no date in the year
Applicable(cal, year) ==
    Calendar(cal.explicitHolidays,
             SelectSeq(cal.rules,
                       LAMBDA rule : calculateDate(rule, year).status = "ok"))

\* C14: when a rule of the calendar cannot produce a date for the queried
\* year, isHoliday, getHolidays and getHolidayNames still return, and return
\* what they return for the calendar without such rules: the explicit dates
\* and the other rules, before and after it in the list, are evaluated.
C14_FailingRuleSkipped ==
    (/\ call.op \in {"isHoliday", "getHolidays", "getHolidayNames"}
     /\ \E i \in 1..Len(rules_) :
           calculateDate(rules_[i], QueriedYear).status # "ok") =>
        LET rest == Applicable(calendar, QueriedYear)
        IN  /\ call.answer.status = "ok"
            /\ call.op = "isHoliday" =>
                  call.answer = HolidayCalendar_isHoliday(rest, call.date)
            /\ call.op = "getHolidays" =>
                  call.answer = getHolidays(rest, call.year)
            /\ call.op = "getHolidayNames" =>
                  call.answer = getHolidayNames(rest, call.date)

\* C14 witness: the name of the rule after a rule that yields no date
C14_Witness ==
    /\ call.op = "getHolidayNames"
    /\ Len(rules_) = 2
    /\ calculateDate(rules_[1], call.date.year).status # "ok"
    /\ call.answer.names = <<rules_[2].name>>

-----------------------------------------------------------------------------
(* Copies of the calendar: calendar2 is a second HolidayCalendar object *)

\* HolidayCalendar calendar2(calendar)
CopyConstruct ==
    /\ idle
    /\ calendar2' = HolidayCalendar_copy(calendar)
    /\ call' = [NoCall EXCEPT !.op = "copy"]
    /\ UNCHANGED <<explicitHolidays_, rules_>>

\* calendar2 = calendar, calendar = calendar2, or calendar = calendar, where
\* this == &other and nothing is done
CopyAssign(to, from) ==
    /\ idle
    /\ call' = [NoCall EXCEPT !.op = IF to = from THEN "selfAssign" ELSE "copy"]
    /\ CASE to = from ->
               UNCHANGED <<explicitHolidays_, rules_, calendar2>>
         [] to = "calendar2" /\ from = "calendar" ->
               /\ calendar2' = HolidayCalendar_copy(calendar)
               /\ UNCHANGED <<explicitHolidays_, rules_>>
         [] to = "calendar" /\ from = "calendar2" ->
               /\ explicitHolidays_' = HolidayCalendar_copy(calendar2).explicitHolidays
               /\ rules_' = HolidayCalendar_copy(calendar2).rules
               /\ UNCHANGED calendar2

\* calendar2.addHoliday(date)
addHoliday2(date) ==
    /\ idle
    /\ Cardinality(calendar2.explicitHolidays) + Len(calendar2.rules) < MaxEntries
    /\ calendar2' = [calendar2 EXCEPT !.explicitHolidays = @ \cup {date}]
    /\ UNCHANGED <<explicitHolidays_, rules_, call>>

\* calendar2.addRule(rule)
addRule2(rule) ==
    /\ idle
    /\ Cardinality(calendar2.explicitHolidays) + Len(calendar2.rules) < MaxEntries
    /\ calendar2' = [calendar2 EXCEPT
                        !.rules = IF rule # NullRule THEN Append(@, rule) ELSE @]
    /\ UNCHANGED <<explicitHolidays_, rules_, call>>

\* calendar2.clear()
clear2 ==
    /\ idle
    /\ calendar2' = Calendar({}, <<>>)
    /\ UNCHANGED <<explicitHolidays_, rules_, call>>

NextCopy ==
    \/ \E date \in HolidayChoices : addHoliday(date)
    \/ \E rule \in RuleChoices : addRule(rule)
    \/ clear
    \/ CopyConstruct
    \/ \E to \in {"calendar", "calendar2"}, from \in {"calendar", "calendar2"} :
          CopyAssign(to, from)
    \/ \E date \in HolidayChoices : addHoliday2(date)
    \/ \E rule \in RuleChoices : addRule2(rule)
    \/ clear2
    \/ Done

SpecCopy == Init /\ [][NextCopy]_vars

-----------------------------------------------------------------------------
(* Claims about copies of the calendar, checked under SpecCopy *)

\* every answer the calendar gives to the queries
Answers(cal) ==
    [isHoliday       |-> [date \in QueryDates |-> HolidayCalendar_isHoliday(cal, date)],
     getHolidays     |-> [year \in QueryYears |-> getHolidays(cal, year)],
     getHolidayNames |-> [date \in QueryDates |-> getHolidayNames(cal, date)]]

-----------------------------------------------------------------------------
(* Calls of calculateDate on a rule *)

\* the years after FirstYear that rules are evaluated for
YearSpan == 5

FirstYear == 2024

\* some years in a row and three century years
RuleYears == FirstYear..(FirstYear + YearSpan) \cup {1900, 2000, 2100}

\* every NthWeekday rule, and fixed and explicit rules
RuleInputs ==
    {NthWeekdayRule("Nth weekday", m, wd, occurrence) :
         m \in 1..12, wd \in 0..6, occurrence \in {1, 2, 3, 4, 5, -1}}
        \cup {FixedDateRule("Fixed", 2, 29), FixedDateRule("Fixed", 12, 25),
              ExplicitDateRule("Explicit", Date(2024, 1, 1))}

\* rule.calculateDate(year)
CalculateDate(rule, year) ==
    /\ idle
    /\ call' = [NoCall EXCEPT
                   !.op = "calculateDate", !.rule = rule, !.year = year,
                   !.result = LET ruleDate == calculateDate(rule, year)
                              IN  Scanned(ruleDate.status, ruleDate.date, 0)]
    /\ UNCHANGED <<explicitHolidays_, rules_, calendar2>>

NextRules ==
    \/ /\ idle
       /\ \E rule \in RuleInputs, year \in RuleYears : CalculateDate(rule, year)
    \/ Done

SpecRules == Init /\ [][NextRules]_vars

-----------------------------------------------------------------------------
(* Claims about NthWeekday rules, checked under SpecRules *)

\* the call in progress is calculateDate on an NthWeekday rule
NthWeekdayCall ==
    call.op = "calculateDate" /\ call.rule.kind = "NthWeekday"

\* the days of the month of the rule, in the year of the call, that fall on
\* the weekday of the rule and lie in first..last
TargetDays(first, last) ==
    {d \in first..Min(last, daysInMonth(call.year, call.rule.month)) :
        dayOfWeek(Date(call.year, call.rule.month, d)) = call.rule.weekday}

\* C16: for occurrence n in 1..5, calculateDate(year) returns the day of the
\* month of the rule, in that year, that falls on the weekday of the rule and
\* lies in 7(n-1)+1 .. 7n; when the month has no such day, which happens for
\* n = 5 only, it throws OccurrenceNotFoundException and returns no date.
C16_NthOccurrence ==
    (NthWeekdayCall /\ call.rule.occurrence \in 1..5) =>
        LET n      == call.rule.occurrence
            target == TargetDays(7 * (n - 1) + 1, 7 * n)
        IN  IF target # {}
            THEN /\ call.result.status = "ok"
                 /\ call.result.date.year = call.year
                 /\ call.result.date.month = call.rule.month
                 /\ target = {call.result.date.day}
            ELSE /\ n = 5
                 /\ call.result.status = "OccurrenceNotFoundException"
                 /\ call.result.date = NoDate

\* C16 witness: the fourth Thursday of November 2024
C16_Witness ==
    /\ NthWeekdayCall
    /\ call.rule.month = 11 /\ call.rule.weekday = 4 /\ call.rule.occurrence = 4
    /\ call.year = 2024
    /\ call.result.date = Date(2024, 11, 28)

\* C17: for occurrence Last, calculateDate(year) returns for every year, and
\* returns the day of the month of the rule that falls on the weekday of the
\* rule within the last seven days of the month: the fifth occurrence when
\* there is one, the fourth otherwise.
C17_LastOccurrence ==
    (NthWeekdayCall /\ call.rule.occurrence = -1) =>
        LET length == daysInMonth(call.year, call.rule.month)
            fifth  == TargetDays(29, 35)
            fourth == TargetDays(22, 28)
        IN  /\ call.result.status = "ok"
            /\ call.result.date.year = call.year
            /\ call.result.date.month = call.rule.month
            /\ TargetDays(length - 6, length) = {call.result.date.day}
            /\ IF fifth # {} THEN fifth = {call.result.date.day}
                             ELSE fourth = {call.result.date.day}

\* C17 witness: the last Monday of May 2024 is the fourth Monday
C17_Witness ==
    /\ NthWeekdayCall
    /\ call.rule.month = 5 /\ call.rule.weekday = 1 /\ call.rule.occurrence = -1
    /\ call.year = 2024
    /\ call.result.date = Date(2024, 5, 27)
    /\ TargetDays(29, 35) = {}

-----------------------------------------------------------------------------
(* Construction of Date objects and calls of their methods *)

\* years before, at and after year 0, century years, leap and common years
DateYears == {-101, -1, 0, 1, 1900, 2000, 2023, 2024, 2100}

DateMonths == 0..13

DateDays == 0..32

\* Date(year, month, day); call.date keeps the three arguments
Construct(year, month, day) ==
    /\ idle
    /\ call' = [NoCall EXCEPT
                   !.op = "Date", !.date = Date(year, month, day),
                   !.result = LET made == Date_Date(year, month, day)
                              IN  Scanned(made.status, made.date, 0)]
    /\ UNCHANGED <<explicitHolidays_, rules_, calendar2>>

\* dayOfWeek() on the object just constructed
DayOfWeek ==
    /\ call.op = "Date"
    /\ call.result.status = "ok"
    /\ call' = [call EXCEPT
                   !.op = "dayOfWeek", !.value = dayOfWeek(call.result.date)]
    /\ UNCHANGED <<explicitHolidays_, rules_, calendar2>>

NextDate ==
    \/ /\ idle
       /\ \E year \in DateYears, month \in DateMonths, day \in DateDays :
             Construct(year, month, day)
    \/ DayOfWeek
    \/ Done

SpecDate == Init /\ [][NextDate]_vars

-----------------------------------------------------------------------------
(* Claims about Date, checked under SpecDate *)

Divides(n, y) == \E q \in (-Abs(y))..Abs(y) : y = n * q

\* divisible by 4 and not by 100, or divisible by 400
LeapYear(y) == Divides(4, y) /\ (~Divides(100, y) \/ Divides(400, y))

\* the length of a month of the calendar
MonthLength(y, m) ==
    CASE m \in {1, 3, 5, 7, 8, 10, 12} -> 31
      [] m \in {4, 6, 9, 11} -> 30
      [] m = 2 -> IF LeapYear(y) THEN 29 ELSE 28

\* C18: Date(year, month, day) is constructed exactly when 1 <= month <= 12
\* and 1 <= day <= the length of the month, where February has 29 days exactly
\* in the years divisible by 4 and not by 100, or divisible by 400; the object
\* then holds the three arguments unchanged; otherwise the constructor throws
\* invalid_argument and no object exists.
C18_DateValidity ==
    call.op = "Date" =>
        LET y == call.date.year
            m == call.date.month
            d == call.date.day
            valid == m \in 1..12 /\ d \in 1..MonthLength(y, m)
        IN  /\ call.result.status = "ok" <=> valid
            /\ valid => call.result.date = Date(y, m, d)
            /\ ~valid => /\ call.result.status = "invalid_argument"
                         /\ call.result.date = NoDate
            /\ (daysInMonth(y, 2) = 29) <=> LeapYear(y)
            /\ isLeapYear(y) <=> LeapYear(y)

\* C18 witness: February 29 of a century year divisible by 400
C18_Witness ==
    /\ call.op = "Date"
    /\ call.date = Date(2000, 2, 29)
    /\ call.result = Scanned("ok", Date(2000, 2, 29), 0)

\* the calendar day after a date
NextDay(date) == year_month_day(sys_days(date) + 1)

\* C19 as stated: for every valid date dayOfWeek returns a value in 0..6, the
\* value of the next calendar day is that value plus one modulo 7, and
\* 2024-01-01 gives 1, 2024-01-07 gives 0 and 2024-11-28 gives 4.
C19_DayOfWeekPeriodic ==
    call.op = "dayOfWeek" =>
        /\ call.value \in 0..6
        /\ dayOfWeek(NextDay(call.result.date)) = (call.value + 1) % 7
        /\ call.result.date = Date(2024, 1, 1) => call.value = 1
        /\ call.result.date = Date(2024, 1, 7) => call.value = 0
        /\ call.result.date = Date(2024, 11, 28) => call.value = 4

-----------------------------------------------------------------------------
(* Day count conventions: the classes ActualActual, Actual360,             *)
(* Actual365Fixed and Thirty360, and the function dayCount of date.cpp.    *)
(* A year fraction is kept as the terms <<days, days of the year>> that    *)
(* the code adds up as doubles.                                            *)

Counted(status, days, terms) == [status |-> status, days |-> days, terms |-> terms]

\* days_in_year
days_in_year(y) == IF is_leap(y) THEN 366 ELSE 365

\* actual_days: the difference of the two day counts
actual_days(start, end) == sys_days(end) - sys_days(start)

\* mutant: the order of the two dates is not tested
validate_dates_AnyOrder(start_date, end_date) ==
    IF ~ok(start_date) THEN "InvalidDateException: Start date is invalid"
    ELSE IF ~ok(end_date) THEN "InvalidDateException: End date is invalid"
    ELSE "ok"

\* validate_dates: the exception it throws and its message, or "ok"
validate_dates(start_date, end_date) ==
    IF ~ok(start_date) THEN "InvalidDateException: Start date is invalid"
    ELSE IF ~ok(end_date) THEN "InvalidDateException: End date is invalid"
    ELSE IF DateLess(end_date, start_date)
         THEN "std::invalid_argument: Start date must not be after end date"
    ELSE "ok"

\* mutant: December 31 of the first year is not counted
ActualActual_yearFraction_NoDec31(start_date, end_date) ==
    LET valid      == validate_dates(start_date, end_date)
        start_year == start_date.year
        end_year   == end_date.year
        year_end   == Date(start_year, 12, 31)
        year_start == Date(end_year, 1, 1)
        days_in_first_year == actual_days(start_date, year_end)
        complete           == Cardinality((start_year + 1)..(end_year - 1))
        days_in_last_year  == actual_days(year_start, end_date)
    IN  IF valid # "ok" THEN Counted(valid, 0, <<>>)
        ELSE IF start_year = end_year
             THEN Counted("ok", 0, << <<actual_days(start_date, end_date),
                                        days_in_year(start_year)>> >>)
        ELSE Counted("ok", 0, << <<days_in_first_year, days_in_year(start_year)>>,
                                 <<complete, 1>>,
                                 <<days_in_last_year, days_in_year(end_year)>> >>)

\* ActualActual::yearFraction
ActualActual_yearFraction(start_date, end_date) ==
    LET valid      == validate_dates(start_date, end_date)
        start_year == start_date.year
        end_year   == end_date.year
        year_end   == Date(start_year, 12, 31)
        year_start == Date(end_year, 1, 1)
        days_in_first_year == actual_days(start_date, year_end) + 1
        complete           == Cardinality((start_year + 1)..(end_year - 1))
        days_in_last_year  == actual_days(year_start, end_date)
    IN  IF valid # "ok" THEN Counted(valid, 0, <<>>)
        ELSE IF start_year = end_year
             THEN Counted("ok", 0, << <<actual_days(start_date, end_date),
                                        days_in_year(start_year)>> >>)
        ELSE Counted("ok", 0, << <<days_in_first_year, days_in_year(start_year)>>,
                                 <<complete, 1>>,
                                 <<days_in_last_year, days_in_year(end_year)>> >>)

\* ActualActual::dayCount, Actual360::dayCount, Actual365Fixed::dayCount
Actual_dayCount(start_date, end_date) ==
    LET valid == validate_dates(start_date, end_date)
    IN  IF valid # "ok" THEN Counted(valid, 0, <<>>)
        ELSE Counted("ok", actual_days(start_date, end_date), <<>>)

\* Actual360::yearFraction (basis 360), Actual365Fixed::yearFraction (365)
Actual_yearFraction(start_date, end_date, basis) ==
    LET valid == validate_dates(start_date, end_date)
    IN  IF valid # "ok" THEN Counted(valid, 0, <<>>)
        ELSE Counted("ok", 0, << <<actual_days(start_date, end_date), basis>> >>)

\* mutant: the two dates are accepted in any order
Thirty360_dayCount_AnyOrder(start_date, end_date) ==
    LET valid       == validate_dates_AnyOrder(start_date, end_date)
        original_d1 == start_date.day
        d1 == IF original_d1 = 31 THEN 30 ELSE original_d1
        d2 == IF end_date.day = 31 /\ original_d1 \in {30, 31}
              THEN 30 ELSE end_date.day
    IN  IF valid # "ok" THEN Counted(valid, 0, <<>>)
        ELSE Counted("ok", (end_date.year - start_date.year) * 360
                             + (end_date.month - start_date.month) * 30
                             + (d2 - d1), <<>>)

\* mutant: the end day 31 becomes 30 whatever the start day
Thirty360_dayCount_EndAlways30(start_date, end_date) ==
    LET valid       == validate_dates(start_date, end_date)
        original_d1 == start_date.day
        d1 == IF original_d1 = 31 THEN 30 ELSE original_d1
        d2 == IF end_date.day = 31 THEN 30 ELSE end_date.day
    IN  IF valid # "ok" THEN Counted(valid, 0, <<>>)
        ELSE Counted("ok", (end_date.year - start_date.year) * 360
                             + (end_date.month - start_date.month) * 30
                             + (d2 - d1), <<>>)

\* Thirty360::dayCount
Thirty360_dayCount(start_date, end_date) ==
    LET valid       == validate_dates(start_date, end_date)
        original_d1 == start_date.day
        d1 == IF original_d1 = 31 THEN 30 ELSE original_d1
        d2 == IF end_date.day = 31 /\ original_d1 \in {30, 31}
              THEN 30 ELSE end_date.day
    IN  IF valid # "ok" THEN Counted(valid, 0, <<>>)
        ELSE Counted("ok", (end_date.year - start_date.year) * 360
                             + (end_date.month - start_date.month) * 30
                             + (d2 - d1), <<>>)

\* Thirty360::yearFraction
Thirty360_yearFraction(start_date, end_date) ==
    LET days == Thirty360_dayCount(start_date, end_date)
    IN  IF days.status # "ok" THEN days
        ELSE Counted("ok", 0, << <<days.days, 360>> >>)

ConventionClasses == {"ActualActual", "Actual360", "Actual365Fixed", "Thirty360"}

\* DayCountConvention::dayCount through the virtual table
DayCountConvention_dayCount(class, start_date, end_date) ==
    IF class = "Thirty360" THEN Thirty360_dayCount(start_date, end_date)
    ELSE Actual_dayCount(start_date, end_date)

\* DayCountConvention::yearFraction through the virtual table
DayCountConvention_yearFraction(class, start_date, end_date) ==
    CASE class = "ActualActual"   -> ActualActual_yearFraction(start_date, end_date)
      [] class = "Actual360"      -> Actual_yearFraction(start_date, end_date, 360)
      [] class = "Actual365Fixed" -> Actual_yearFraction(start_date, end_date, 365)
      [] class = "Thirty360"      -> Thirty360_yearFraction(start_date, end_date)

\* the enumerators of DayCountConvention that dayCount of date.cpp handles
ConventionEnum == {"ActualActual", "Thirty360"}

\* mutant: the end day 31 becomes 30 whatever the start day
dayCount_EndAlways30(start, end, convention) ==
    IF ~ok(start)
    THEN Counted("std::invalid_argument: Invalid start date provided to dayCount", 0, <<>>)
    ELSE IF ~ok(end)
    THEN Counted("std::invalid_argument: Invalid end date provided to dayCount", 0, <<>>)
    ELSE IF convention = "ActualActual"
    THEN Counted("ok", sys_days(end) - sys_days(start), <<>>)
    ELSE LET d1 == IF start.day = 31 THEN 30 ELSE start.day
             d2 == IF end.day = 31 THEN 30 ELSE end.day
         IN  Counted("ok", 360 * (end.year - start.year)
                             + 30 * (end.month - start.month) + (d2 - d1), <<>>)

\* dayCount(start, end, convention) of date.cpp: the order is not tested
dayCount(start, end, convention) ==
    IF ~ok(start)
    THEN Counted("std::invalid_argument: Invalid start date provided to dayCount", 0, <<>>)
    ELSE IF ~ok(end)
    THEN Counted("std::invalid_argument: Invalid end date provided to dayCount", 0, <<>>)
    ELSE IF convention = "ActualActual"
    THEN Counted("ok", sys_days(end) - sys_days(start), <<>>)
    ELSE LET d1 == IF start.day = 31 THEN 30 ELSE start.day
             d2 == IF end.day = 31 /\ start.day \in {30, 31} THEN 30 ELSE end.day
         IN  Counted("ok", 360 * (end.year - start.year)
                             + 30 * (end.month - start.month) + (d2 - d1), <<>>)

\* the dates of the calls: three years, one of them two years after the
\* others, and days that are not days of every month
CountYears == {2023, 2024, 2026}

CountMonths == {1, 2, 12}

CountDays == {1, 29, 30, 31}

CountDates == {Date(y, m, d) : y \in CountYears, m \in CountMonths, d \in CountDays}

\* a call of dayCount on a convention object
ClassDayCount(class, start_date, end_date) ==
    /\ idle
    /\ call' = [NoCall EXCEPT
                   !.op = "DayCountConvention::dayCount", !.convention = class,
                   !.date = start_date, !.end = end_date,
                   !.counted = DayCountConvention_dayCount(class, start_date, end_date)]
    /\ UNCHANGED <<explicitHolidays_, rules_, calendar2>>

\* a call of yearFraction on a convention object
ClassYearFraction(class, start_date, end_date) ==
    /\ idle
    /\ call' = [NoCall EXCEPT
                   !.op = "DayCountConvention::yearFraction", !.convention = class,
                   !.date = start_date, !.end = end_date,
                   !.counted = DayCountConvention_yearFraction(class, start_date, end_date)]
    /\ UNCHANGED <<explicitHolidays_, rules_, calendar2>>

\* a call of dayCount(start, end, convention)
DayCount(start, end, convention) ==
    /\ idle
    /\ call' = [NoCall EXCEPT
                   !.op = "dayCount", !.convention = convention,
                   !.date = start, !.end = end,
                   !.counted = dayCount(start, end, convention)]
    /\ UNCHANGED <<explicitHolidays_, rules_, calendar2>>

NextCount ==
    \/ /\ idle
       /\ \E class \in ConventionClasses, start_date \in CountDates, end_date \in CountDates :
             ClassDayCount(class, start_date, end_date)
    \/ /\ idle
       /\ \E class \in ConventionClasses, start_date \in CountDates, end_date \in CountDates :
             ClassYearFraction(class, start_date, end_date)
    \/ /\ idle
       /\ \E convention \in ConventionEnum, start \in CountDates, end \in CountDates :
             DayCount(start, end, convention)
    \/ Done

SpecCount == Init /\ [][NextCount]_vars

-----------------------------------------------------------------------------
(* Claims about the day count conventions, checked under SpecCount *)

ActualConventions == {"ActualActual", "Actual360", "Actual365Fixed"}

\* the errors of the taxonomy
InvalidDateErrors ==
    {"InvalidDateException: Start date is invalid",
     "InvalidDateException: End date is invalid",
     "std::invalid_argument: Invalid start date provided to dayCount",
     "std::invalid_argument: Invalid end date provided to dayCount"}

OrderingErrors == {"std::invalid_argument: Start date must not be after end date"}

\* a date of the calendar
OnCalendar(date) ==
    /\ date.month \in 1..12
    /\ date.day \in 1..MonthLength(date.year, date.month)

After(a, b) ==
    \/ a.year > b.year
    \/ a.year = b.year /\ a.month > b.month
    \/ a.year = b.year /\ a.month = b.month /\ a.day > b.day

\* every date of the calendar in the years of the calls
CalendarDays ==
    {date \in {Date(y, m, d) : y \in 2023..2026, m \in 1..12, d \in 1..31} :
        OnCalendar(date)}

\* the number of calendar days from the first date up to the second
DaysApart(from, to) ==
    Cardinality({date \in CalendarDays : ~After(from, date) /\ After(to, date)})

\* what the three actual conventions promise of a call
ActualContract ==
    LET start == call.date
        end   == call.end
    IN  /\ (~OnCalendar(start) \/ ~OnCalendar(end)) =>
               call.counted.status \in InvalidDateErrors
        /\ (OnCalendar(start) /\ OnCalendar(end) /\ After(start, end)) =>
               call.counted.status \in OrderingErrors
        /\ (OnCalendar(start) /\ OnCalendar(end) /\ ~After(start, end)) =>
               call.counted.status = "ok"

\* C20 as stated: dayCount and yearFraction with ActualActual, Actual360 or
\* Actual365Fixed fail with InvalidDate on an invalid endpoint and with an
\* ordering error whenever start > end, and never return a negative count.
C20_Original ==
    (call.op \in {"DayCountConvention::dayCount", "DayCountConvention::yearFraction",
                  "dayCount"}
       /\ call.convention \in ActualConventions) =>
        /\ ActualContract
        /\ call.counted.days >= 0

\* C20: on the objects ActualActual, Actual360 and Actual365Fixed dayCount
\* and yearFraction fail with InvalidDate when an endpoint is invalid and with
\* an ordering error when both are valid and start > end, and dayCount of
\* valid start <= end is the number of calendar days from start to end; the
\* function dayCount(start, end, ActualActual) fails with InvalidDate on an
\* invalid endpoint and returns the signed difference for valid dates in
\* either order, negative when start > end.
C20_ActualDayCount ==
    LET start == call.date
        end   == call.end
        valid == OnCalendar(start) /\ OnCalendar(end)
    IN  /\ (call.op \in {"DayCountConvention::dayCount", "DayCountConvention::yearFraction"}
              /\ call.convention \in ActualConventions) =>
               /\ ActualContract
               /\ (call.op = "DayCountConvention::dayCount" /\ call.counted.status = "ok") =>
                      call.counted.days = DaysApart(start, end)
        /\ (call.op = "dayCount" /\ call.convention = "ActualActual") =>
               /\ ~valid => call.counted.status \in InvalidDateErrors
               /\ valid => call.counted.status = "ok"
               /\ (valid /\ ~After(start, end)) =>
                      call.counted.days = DaysApart(start, end)
               /\ (valid /\ After(start, end)) =>
                      call.counted.days = -DaysApart(end, start)

\* C20 witness: Actual360::dayCount from the last day of 2024 to its first
\* day fails with the ordering error
C20_Witness ==
    /\ call.op = "DayCountConvention::dayCount"
    /\ call.convention = "Actual360"
    /\ call.date = Date(2024, 12, 31)
    /\ call.end = Date(2024, 1, 1)
    /\ call.counted.status \in OrderingErrors

\* the 30/360 count of two dates of the calendar
ThirtyDays(start, end) ==
    LET d1 == IF start.day = 31 THEN 30 ELSE start.day
        d2 == IF end.day = 31 /\ (start.day = 30 \/ start.day = 31) THEN 30 ELSE end.day
    IN  360 * (end.year - start.year) + 30 * (end.month - start.month) + (d2 - d1)

ClassOps == {"DayCountConvention::dayCount", "DayCountConvention::yearFraction"}

\* a call with Thirty360 on two dates of the calendar, the first after the second
ThirtyReversed ==
    /\ call.convention = "Thirty360"
    /\ OnCalendar(call.date) /\ OnCalendar(call.end)
    /\ After(call.date, call.end)

\* C21 as stated: for valid dates with start > end, Thirty360 dayCount and
\* yearFraction return the value of the 30/360 formula and do not fail with
\* an ordering error.
C21_Original ==
    (call.op \in ClassOps \cup {"dayCount"} /\ ThirtyReversed) =>
        /\ call.counted.status = "ok"
        /\ call.op # "DayCountConvention::yearFraction" =>
               call.counted.days = ThirtyDays(call.date, call.end)
        /\ call.op = "DayCountConvention::yearFraction" =>
               call.counted.terms = << <<ThirtyDays(call.date, call.end), 360>> >>

\* C21: the function dayCount(start, end, Thirty360) accepts valid dates in
\* any order and returns the value of the 30/360 formula, negative or zero
\* when start > end; dayCount and yearFraction of the object Thirty360 fail
\* with the ordering error when start > end, as the other conventions do.
C21_Thirty360Order ==
    /\ (call.op = "dayCount" /\ ThirtyReversed) =>
           /\ call.counted.status = "ok"
           /\ call.counted.days = ThirtyDays(call.date, call.end)
           /\ call.counted.days <= 0
    /\ (call.op \in ClassOps /\ ThirtyReversed) =>
           call.counted.status \in OrderingErrors

\* C21 witness: Thirty360::yearFraction from 2024-12-30 back to 2024-01-01
\* fails with the ordering error
C21_Witness ==
    /\ call.op = "DayCountConvention::yearFraction"
    /\ call.convention = "Thirty360"
    /\ call.date = Date(2024, 12, 30)
    /\ call.end = Date(2024, 1, 1)
    /\ call.counted.status \in OrderingErrors

\* C22: a dayCount with Thirty360 on valid dates that returns gives
\* 360*(y2 - y1) + 30*(m2 - m1) + (d2' - d1'), d1' = 30 if d1 = 31, d2' = 30
\* if d2 = 31 and the original d1 is 30 or 31; the function dayCount returns
\* for every pair of valid dates, the object for start <= end; a date to
\* itself gives 0 and the same month and day one year later gives 360.
C22_Thirty360Formula ==
    (call.op \in {"dayCount", "DayCountConvention::dayCount"}
       /\ call.convention = "Thirty360"
       /\ OnCalendar(call.date) /\ OnCalendar(call.end)) =>
        /\ call.op = "dayCount" => call.counted.status = "ok"
        /\ ~After(call.date, call.end) => call.counted.status = "ok"
        /\ call.counted.status = "ok" =>
               /\ call.counted.days = ThirtyDays(call.date, call.end)
               /\ call.date = call.end => call.counted.days = 0
               /\ (call.end.year = call.date.year + 1
                     /\ call.end.month = call.date.month
                     /\ call.end.day = call.date.day) => call.counted.days = 360

\* C22 witness: Thirty360::dayCount from 2023-01-29 to 2024-01-31, where the
\* end day 31 is kept
C22_Witness ==
    /\ call.op = "DayCountConvention::dayCount"
    /\ call.convention = "Thirty360"
    /\ call.date = Date(2023, 1, 29)
    /\ call.end = Date(2024, 1, 31)
    /\ call.counted = Counted("ok", 362, <<>>)

\* the days of a year of the calendar
YearLength(y) == Cardinality({date \in CalendarDays : date.year = y})

\* the days of the whole years strictly between two years
WholeYearDays(from, to) ==
    Cardinality({date \in CalendarDays : from < date.year /\ date.year < to})

\* C23: ActualActual::yearFraction is, as an exact sum, (end - start) over
\* the days of the year when both dates are in one year, and otherwise the
\* days from start through December 31 over the days of the start year, plus
\* one per whole year between, plus the days from January 1 to end over the
\* days of the end year; the numerators and the days of the whole years add
\* up to end - start, and January 1 to January 1 k years later gives k.
C23_ActualActualFraction ==
    (call.op = "DayCountConvention::yearFraction"
       /\ call.convention = "ActualActual" /\ call.counted.status = "ok") =>
        LET start == call.date
            end   == call.end
            terms == call.counted.terms
        IN  IF start.year = end.year
            THEN terms = << <<DaysApart(start, end), YearLength(start.year)>> >>
            ELSE /\ Len(terms) = 3
                 /\ terms[1] = <<DaysApart(start, Date(start.year, 12, 31)) + 1,
                                 YearLength(start.year)>>
                 /\ terms[2] = <<end.year - start.year - 1, 1>>
                 /\ terms[3] = <<DaysApart(Date(end.year, 1, 1), end),
                                 YearLength(end.year)>>
                 /\ terms[1][1] + WholeYearDays(start.year, end.year) + terms[3][1]
                        = DaysApart(start, end)
                 /\ (start.month = 1 /\ start.day = 1 /\ end.month = 1 /\ end.day = 1) =>
                        /\ terms[1][1] = terms[1][2]
                        /\ terms[3][1] = 0
                        /\ 1 + terms[2][1] = end.year - start.year

\* C23 witness: from 2023-12-30 to 2026-01-29, two whole years between
C23_Witness ==
    /\ call.op = "DayCountConvention::yearFraction"
    /\ call.convention = "ActualActual"
    /\ call.date = Date(2023, 12, 30)
    /\ call.end = Date(2026, 1, 29)
    /\ call.counted = Counted("ok", 0, << <<2, 365>>, <<2, 1>>, <<28, 365>> >>)

-----------------------------------------------------------------------------
(* diff and businessDaysDiff *)

\* diff: the signed number of calendar days, or the exception
diff(start_date, end_date) ==
    IF ~ok(start_date)
    THEN Counted("std::invalid_argument: Invalid start_date provided to diff", 0, <<>>)
    ELSE IF ~ok(end_date)
    THEN Counted("std::invalid_argument: Invalid end_date provided to diff", 0, <<>>)
    ELSE Counted("ok", sys_days(end_date) - sys_days(start_date), <<>>)

\* the local variables of the loop of businessDaysDiff
DiffState(current_sys, business_days, status) ==
    [current_sys |-> current_sys, business_days |-> business_days, status |-> status]

\* mutant: the day is tested before the move, so the first day is counted
\* and the last is not
diffStep_CountsStart(s, target_sys, cal, weekend_days) ==
    IF s.status # "running" THEN s
    ELSE IF ~(s.current_sys < target_sys) THEN [s EXCEPT !.status = "ok"]
    ELSE [s EXCEPT
            !.current_sys = @ + 1,
            !.business_days =
                IF isBusinessDay(year_month_day(s.current_sys), cal, weekend_days)
                THEN @ + 1 ELSE @]

\* one pass of the while loop of businessDaysDiff
diffStep(s, target_sys, cal, weekend_days) ==
    IF s.status # "running" THEN s
    ELSE IF ~(s.current_sys < target_sys) THEN [s EXCEPT !.status = "ok"]
    ELSE LET current_sys == s.current_sys + 1
         IN  [s EXCEPT
                !.current_sys = current_sys,
                !.business_days =
                    IF isBusinessDay(year_month_day(current_sys), cal, weekend_days)
                    THEN @ + 1 ELSE @]

RECURSIVE diffLoop(_, _, _, _, _)
\* n passes of the loop, composed by halves to keep the evaluation shallow
diffLoop(s, n, target_sys, cal, weekend_days) ==
    IF s.status # "running" \/ n = 0 THEN s
    ELSE IF n = 1 THEN diffStep(s, target_sys, cal, weekend_days)
    ELSE diffLoop(diffLoop(s, n \div 2, target_sys, cal, weekend_days),
                  n - n \div 2, target_sys, cal, weekend_days)

\* mutant: the count is not negated when the dates are swapped
businessDaysDiff_Unsigned(start_date, end_date, cal, weekend_days) ==
    IF ~ok(start_date)
    THEN Counted("std::invalid_argument: Invalid start_date provided to businessDaysDiff",
                 0, <<>>)
    ELSE IF ~ok(end_date)
    THEN Counted("std::invalid_argument: Invalid end_date provided to businessDaysDiff",
                 0, <<>>)
    ELSE IF start_date = end_date THEN Counted("ok", 0, <<>>)
    ELSE LET forward      == DateLess(start_date, end_date)
             current_date == IF forward THEN start_date ELSE end_date
             target_date  == IF forward THEN end_date ELSE start_date
             s == diffLoop(DiffState(sys_days(current_date), 0, "running"), LoopFuel,
                           sys_days(target_date), cal, weekend_days)
         IN  Counted(s.status, s.business_days, <<>>)

\* businessDaysDiff: the signed number of business days, or the exception
businessDaysDiff(start_date, end_date, cal, weekend_days) ==
    IF ~ok(start_date)
    THEN Counted("std::invalid_argument: Invalid start_date provided to businessDaysDiff",
                 0, <<>>)
    ELSE IF ~ok(end_date)
    THEN Counted("std::invalid_argument: Invalid end_date provided to businessDaysDiff",
                 0, <<>>)
    ELSE IF start_date = end_date THEN Counted("ok", 0, <<>>)
    ELSE LET forward      == DateLess(start_date, end_date)
             current_date == IF forward THEN start_date ELSE end_date
             target_date  == IF forward THEN end_date ELSE start_date
             s == diffLoop(DiffState(sys_days(current_date), 0, "running"), LoopFuel,
                           sys_days(target_date), cal, weekend_days)
         IN  Counted(s.status,
                     IF forward THEN s.business_days ELSE -s.business_days, <<>>)

\* the dates of the calls: the windows around the two dates that can be
\* holidays, and the date that is not ok()
DiffDates ==
    Window(Date(2023, 12, 28)) \cup Window(Date(2024, 5, 30)) \cup {InvalidDate}

\* a call of diff
Diff(start_date, end_date) ==
    /\ idle
    /\ call' = [NoCall EXCEPT
                   !.op = "diff", !.date = start_date, !.end = end_date,
                   !.counted = diff(start_date, end_date)]
    /\ UNCHANGED <<explicitHolidays_, rules_, calendar2>>

\* a call of businessDaysDiff on the calendar of the current state
BusinessDaysDiff(start_date, end_date, weekend_days) ==
    /\ idle
    /\ call' = [NoCall EXCEPT
                   !.op = "businessDaysDiff", !.date = start_date, !.end = end_date,
                   !.weekend_days = weekend_days,
                   !.counted = businessDaysDiff(start_date, end_date, calendar,
                                                weekend_days)]
    /\ UNCHANGED <<explicitHolidays_, rules_, calendar2>>

NextDiff ==
    \/ \E date \in HolidayChoices : addHoliday(date)
    \/ clear
    \/ /\ idle
       /\ \E start_date \in DiffDates, end_date \in DiffDates : Diff(start_date, end_date)
    \/ /\ idle
       /\ \E start_date \in DiffDates, end_date \in DiffDates,
             weekend_days \in AdvanceWeekends :
             BusinessDaysDiff(start_date, end_date, weekend_days)
    \/ Done

SpecDiff == Init /\ [][NextDiff]_vars

-----------------------------------------------------------------------------
(* Claims about businessDaysDiff, checked under SpecDiff *)

\* the business days d with from < d <= to, counted over the days between
BusinessDaysBetween(from, to, cal, weekend_days) ==
    Cardinality({k \in 1..200 :
                    /\ k <= sys_days(to) - sys_days(from)
                    /\ LET d == PlusDays(from, k)
                       IN  /\ weekday(sys_days(d)) \notin weekend_days
                           /\ ~isHoliday(cal, d)})

\* C24: businessDaysDiff is 0 when start = end, the number of business days
\* d with start < d <= end when start < end, and minus the number of business
\* days d with end < d <= start when start > end; so it changes sign when its
\* dates are exchanged, and with no holiday and no weekend day it is diff.
C24_BusinessDaysDiff ==
    (call.op = "businessDaysDiff" /\ ok(call.date) /\ ok(call.end)) =>
        LET start == call.date
            end   == call.end
            wk    == call.weekend_days
        IN  /\ call.counted.status = "ok"
            /\ start = end => call.counted.days = 0
            /\ DateLess(start, end) =>
                   call.counted.days = BusinessDaysBetween(start, end, calendar, wk)
            /\ DateLess(end, start) =>
                   call.counted.days = -BusinessDaysBetween(end, start, calendar, wk)
            /\ call.counted.days = -businessDaysDiff(end, start, calendar, wk).days
            /\ (calendar = Calendar({}, <<>>) /\ wk = {}) =>
                   call.counted = diff(start, end)

\* C24 witness: from Tuesday 2024-01-02 back to Thursday 2023-12-28 with the
\* New Year holiday: Friday and Thursday are not counted twice, the result
\* is minus the two business days Friday and Tuesday
C24_Witness ==
    /\ call.op = "businessDaysDiff"
    /\ call.date = Date(2024, 1, 2)
    /\ call.end = Date(2023, 12, 28)
    /\ call.weekend_days = DefaultWeekend
    /\ Date(2024, 1, 1) \in explicitHolidays_
    /\ call.counted = Counted("ok", -2, <<>>)

-----------------------------------------------------------------------------
(* advance by many business days *)

\* numbers of business days around a year of working days (261 or 262 with
\* the Saturday/Sunday weekend) and past the limit of the loop
LongDays == {261, 262, 263, MAX_DAYS_TO_SEARCH, MAX_DAYS_TO_SEARCH + 1}

LongPeriods == {Period(value, "Days") : value \in LongDays \cup {-n : n \in LongDays}}

LongWeekends == {DefaultWeekend, {}, AllWeekdays}

NextLong ==
    \/ \E date \in HolidayChoices : addHoliday(date)
    \/ clear
    \/ /\ idle
       /\ \E date \in InputDates, period \in LongPeriods, weekend_days \in LongWeekends :
             Advance(date, period, "Following", weekend_days)
    \/ /\ idle
       /\ \E date \in InputDates, convention \in Conventions,
             weekend_days \in LongWeekends :
             Adjust(date, convention, weekend_days)
    \/ Done

SpecLong == Init /\ [][NextLong]_vars

\* no business day among the days first, first + direction, ... up to 366
\* days further: a run of 367 days
NonBusinessRun(first, direction) ==
    \A k \in 0..MAX_DAYS_TO_SEARCH :
        ~isBusinessDay(PlusDays(first, direction * k), calendar, call.weekend_days)

\* C25 as stated: adjust and advance with unit Days fail with
\* BusinessDaySearchExceeded only if the calendar and the weekend set leave
\* more than 366 consecutive non-business days in the direction of the scan,
\* and never with an empty calendar and the Saturday/Sunday weekend.
C25_SearchExceededOnlyPathological ==
    ((call.op = "adjust" \/ (call.op = "advance" /\ call.period.unit = "Days"))
       /\ call.result.status = "BusinessDaySearchException") =>
        /\ ~(calendar = Calendar({}, <<>>) /\ call.weekend_days = DefaultWeekend)
        /\ IF call.op = "adjust"
           THEN NonBusinessRun(call.date, 1) \/ NonBusinessRun(call.date, -1)
           ELSE LET direction == IF call.period.value > 0 THEN 1 ELSE -1
                IN  NonBusinessRun(PlusDays(call.date, direction), direction)

-----------------------------------------------------------------------------
(* advance by weeks at the width of int: period.value() * 7 is a product of
   two int, and year_month_day holds a year of 16 bits *)

\* a + b on int when it overflows wraps to 32 bits; the sum is formed without
\* leaving the range of int
add32(a, b) ==
    IF a > 0 /\ b > 0 /\ b > INT_MAX - a THEN (a + INT_MIN) + (b + INT_MIN)
    ELSE IF a < 0 /\ b < 0 /\ b < INT_MIN - a THEN (a - INT_MIN) + (b - INT_MIN)
    ELSE a + b

\* value * 7 wrapped to 32 bits
times7(value) ==
    LET x2 == add32(value, value)
        x4 == add32(x2, x2)
    IN  add32(add32(x4, x2), value)

\* whether value * 7 is outside int
overflows7(value) == value > INT_MAX \div 7 \/ value < -(INT_MAX \div 7)

\* period.value() * 7: the product, or, when it overflows (undefined
\* behaviour), either the product wrapped to 32 bits or a trap
weeksProduct(value) ==
    IF ~overflows7(value) THEN {[status |-> "ok", days |-> value * 7]}
    ELSE {[status |-> "ok", days |-> times7(value)], [status |-> "trap", days |-> 0]}

\* the years std::chrono::year can hold
YearRange == (-32767)..32767

\* year_month_day{sys_days}: the civil date when its year is in range; the
\* value is unspecified otherwise, some date whose year is in range
civilOutcomes(days) ==
    LET exact == year_month_day(days)
    IN  IF exact.year \in YearRange THEN {exact}
        ELSE {Date(y, exact.month, exact.day) : y \in {-32767, 1970, 32767}}

\* the outcomes of advance for a period of weeks: result_date before the
\* convention is applied, and what adjust makes of it
advanceWeeksOutcomes(date, value, convention, cal, weekend_days) ==
    IF ~ok(date)
    THEN {[unadjusted |-> NoDate, result |-> Scanned("InvalidDateException", NoDate, 0)]}
    ELSE UNION {
           IF product.status # "ok"
           THEN {[unadjusted |-> NoDate, result |-> Scanned("trap", NoDate, 0)]}
           ELSE {[unadjusted |-> result_date,
                  result |-> adjust(result_date, convention, cal, weekend_days)] :
                     result_date \in civilOutcomes(sys_days(date) + product.days)}
           : product \in weeksProduct(value)}

\* the period strings of the calls
WeekTexts ==
    {<<"0", "W">>, <<"1", "W">>, <<"-", "1", "W">>, <<"5", "2", "w">>,
     <<"5", "0", "0", "0", "W">>,
     <<"1", "0", "0", "0", "0", "0", "0", "0", "0", "W">>,
     <<"-", "1", "0", "0", "0", "0", "0", "0", "0", "0", "W">>,
     <<"3", "0", "6", "7", "8", "3", "3", "7", "9", "W">>,
     <<"9", "9", "9", "9", "9", "9", "9", "9", "9", "W">>,
     <<"-", "9", "9", "9", "9", "9", "9", "9", "9", "9", "W">>}

\* advance(date, period string, convention, calendar, weekend_days) for a
\* string of weeks that Period::parse accepts
AdvanceWeeks(date, text, convention, weekend_days) ==
    /\ idle
    /\ parse(text).status = "ok"
    /\ parse(text).unit = "Weeks"
    /\ \E outcome \in advanceWeeksOutcomes(date, parse(text).value, convention,
                                           calendar, weekend_days) :
          call' = [NoCall EXCEPT
                     !.op = "advance", !.date = date, !.origin = date,
                     !.text = text, !.parsed = parse(text),
                     !.period = Period(parse(text).value, "Weeks"),
                     !.convention = convention, !.weekend_days = weekend_days,
                     !.unadjusted = outcome.unadjusted,
                     !.result = outcome.result]
    /\ UNCHANGED <<explicitHolidays_, rules_, calendar2>>

NextWeeks ==
    \/ \E date \in HolidayChoices : addHoliday(date)
    \/ clear
    \/ /\ idle
       /\ \E date \in InputDates, text \in WeekTexts,
             convention \in {"Unadjusted", "Following"} :
             AdvanceWeeks(date, text, convention, DefaultWeekend)
    \/ Done

SpecWeeks == Init /\ [][NextWeeks]_vars

\* C27 as stated: for unit Weeks and every value that Period::parse accepts,
\* the product value * 7 is computed without overflow and the result before
\* the convention is applied lies exactly value * 7 calendar days from the
\* input date.
C27_WeeksExact ==
    (call.op = "advance" /\ call.period.unit = "Weeks" /\ ok(call.date)) =>
        /\ call.result.status # "trap"
        /\ LET days == sys_days(call.unadjusted) - sys_days(call.date)
           IN  /\ days % 7 = 0
               /\ days \div 7 = call.period.value

-----------------------------------------------------------------------------
(* adjust on a calendar with a run of holidays of almost a year *)

\* every day of 2024 after New Year's Day added to a fresh calendar, as the
\* tests add every day of 2024
addHolidayRun ==
    /\ idle
    /\ explicitHolidays_ = {} /\ rules_ = <<>>
    /\ explicitHolidays_' =
           {date \in {Date(2024, m, d) : m \in 1..12, d \in 1..31} :
               ok(date) /\ date # Date(2024, 1, 1)}
    /\ UNCHANGED <<rules_, call, calendar2>>

\* dates at the start of 2024 and at the start and the end of 2025
RunDates ==
    Window(Date(2024, 1, 1)) \cup Window(Date(2024, 12, 28)) \cup {Date(2025, 1, 1)}

NextRun ==
    \/ \E date \in HolidayChoices : addHoliday(date)
    \/ clear
    \/ addHolidayRun
    \/ /\ idle
       /\ \E date \in RunDates, convention \in Conventions,
             weekend_days \in {DefaultWeekend, {}, {Sunday}} :
             Adjust(date, convention, weekend_days)
    \/ Done

SpecRun == Init /\ [][NextRun]_vars

\* the month of a date, in the year of the date, has a business day
MonthHasBusinessDay(date) ==
    \E d \in 1..last_day(date.year, date.month) :
        isBusinessDay(Date(date.year, date.month, d), calendar, call.weekend_days)

\* C28 as stated: when ModifiedFollowing or ModifiedPreceding returns and the
\* month of the input date, in the year of the input date, has a business
\* day, the date returned is in that month of that year, never in the month
\* of the same number of a neighbouring year.
C28_ModifiedStaysInMonth ==
    (call.op = "adjust"
       /\ call.convention \in {"ModifiedFollowing", "ModifiedPreceding"}
       /\ call.result.status = "ok"
       /\ MonthHasBusinessDay(call.date)) =>
        /\ call.result.date.year = call.date.year
        /\ call.result.date.month = call.date.month

-----------------------------------------------------------------------------
(* Exchange of the arguments of dayCount(start, end, Thirty360), checked
   under SpecCount *)

\* a call of the function with Thirty360 on two dates of the calendar
ThirtyCall ==
    /\ call.op = "dayCount"
    /\ call.convention = "Thirty360"
    /\ OnCalendar(call.date) /\ OnCalendar(call.end)

\* the count of the call with its two dates exchanged
Exchanged == dayCount(call.end, call.date, "Thirty360").days

\* C26 as stated: dayCount(b, a, Thirty360) = -dayCount(a, b, Thirty360) for
\* all valid dates a and b.
C26_Original ==
    ThirtyCall => Exchanged = -call.counted.days

\* one of the two days is 31 and the other is below 30
Skewed(a, b) ==
    \/ a.day = 31 /\ b.day < 30
    \/ b.day = 31 /\ a.day < 30

\* C26: dayCount(b, a, Thirty360) = -dayCount(a, b, Thirty360) for valid
\* dates a and b unless one of them is on day 31 and the other on a day
\* below 30; then the day 31 is kept as end day and replaced by 30 as start
\* day, and dayCount(b, a) = 1 - dayCount(a, b).  January 15 and February 15
\* give 30 and -30.
C26_Thirty360Exchange ==
    /\ ThirtyCall =>
           IF Skewed(call.date, call.end)
           THEN Exchanged = 1 - call.counted.days
           ELSE Exchanged = -call.counted.days
    /\ dayCount(Date(2024, 1, 15), Date(2024, 2, 15), "Thirty360").days = 30
    /\ dayCount(Date(2024, 2, 15), Date(2024, 1, 15), "Thirty360").days = -30

\* C26 witness: from 2024-01-29 to 2024-12-31 the count is 332, and from
\* 2024-12-31 to 2024-01-29 it is -331
C26_Witness ==
    /\ ThirtyCall
    /\ call.date = Date(2024, 1, 29)
    /\ call.end = Date(2024, 12, 31)
    /\ call.counted.days = 332
    /\ Exchanged = -331

-----------------------------------------------------------------------------
(* advance by business days followed by businessDaysDiff *)

\* businessDaysDiff from the date a call of advance started at to the date
\* it returned, same calendar and weekend set
DiffOfAdvance ==
    /\ call.op = "advance"
    /\ call.result.status = "ok"
    /\ call' = [call EXCEPT
                   !.op = "diffOfAdvance", !.end = call.result.date,
                   !.counted = businessDaysDiff(call.origin, call.result.date,
                                                calendar, call.weekend_days)]
    /\ UNCHANGED <<explicitHolidays_, rules_, calendar2>>

InversePeriods == {Period(value, "Days") : value \in (-MaxDays)..MaxDays}

InverseWeekends == {DefaultWeekend, {}, {Friday, Saturday}}

NextInverse ==
    \/ \E date \in HolidayChoices : addHoliday(date)
    \/ clear
    \/ /\ idle
       /\ \E date \in InputDates, period \in InversePeriods,
             weekend_days \in InverseWeekends :
             Advance(date, period, "Following", weekend_days)
    \/ DiffOfAdvance
    \/ Done

SpecInverse == Init /\ [][NextInverse]_vars

\* C29 as stated: when advance(d, Period{n, Days}) with n # 0 returns e,
\* businessDaysDiff(d, e) with the same calendar and weekend set is n.
C29_Original ==
    (call.op = "diffOfAdvance" /\ call.period.value # 0) =>
        call.counted = Counted("ok", call.period.value, <<>>)

\* C29: when advance(d, Period{n, Days}) with n # 0 returns e,
\* businessDaysDiff(d, e) is n when n > 0, and when n < 0 and d is a business
\* day; when n < 0 and d is not a business day it is n + 1, because the count
\* runs over the days after e up to and including d.
C29_AdvanceDiffInverse ==
    (call.op = "diffOfAdvance" /\ call.period.value # 0) =>
        LET n == call.period.value
        IN  call.counted =
                Counted("ok",
                        IF n > 0 \/ BusinessNow(call.origin) THEN n ELSE n + 1,
                        <<>>)

\* C29 witness: two business days back from Saturday 2023-12-30 is Thursday
\* 2023-12-28, and businessDaysDiff from the Saturday to it is -1
C29_Witness ==
    /\ call.op = "diffOfAdvance"
    /\ call.origin = Date(2023, 12, 30)
    /\ call.period.value = -2
    /\ call.weekend_days = DefaultWeekend
    /\ call.result.date = Date(2023, 12, 28)
    /\ call.counted = Counted("ok", -1, <<>>)

-----------------------------------------------------------------------------
(* appliesTo and calculateDate of a rule for the same year *)

\* years of the calls: those of the rules' tests, and years that an int holds
\* and a std::chrono::year does not
ApplyYears == RuleYears \cup {-70000, 40000, 70000}

\* rule.appliesTo(year)
AppliesTo(rule, year) ==
    /\ idle
    /\ call' = [NoCall EXCEPT
                   !.op = "appliesTo", !.rule = rule, !.year = year,
                   !.flag = appliesTo(rule, year)]
    /\ UNCHANGED <<explicitHolidays_, rules_, calendar2>>

\* rule.calculateDate(year) after rule.appliesTo(year)
CalculateApplied ==
    /\ call.op = "appliesTo"
    /\ call' = [call EXCEPT
                   !.op = "calculateApplied",
                   !.result = LET ruleDate == calculateDate(call.rule, call.year)
                              IN  Scanned(ruleDate.status, ruleDate.date, 0)]
    /\ UNCHANGED <<explicitHolidays_, rules_, calendar2>>

NextApplies ==
    \/ /\ idle
       /\ \E rule \in RuleInputs, year \in ApplyYears : AppliesTo(rule, year)
    \/ CalculateApplied
    \/ Done

SpecApplies == Init /\ [][NextApplies]_vars

\* C30 as stated: for every rule and every year, appliesTo(year) is true if
\* and only if calculateDate(year) succeeds, and a date that calculateDate
\* returns is a date of the calendar in the requested year.
C30_AppliesIffCalculates ==
    call.op = "calculateApplied" =>
        /\ call.flag <=> call.result.status = "ok"
        /\ call.result.status = "ok" =>
               /\ call.result.date.year = call.year
               /\ call.result.date.month \in 1..12
               /\ call.result.date.day
                      \in 1..MonthLength(call.year, call.result.date.month)

====
